---- MODULE Spec2Model ----
(***************************************************************************)
(* Model of the vless-generator service: the template store               *)
(* (internal/templates/manager.go), the query-parameter parser            *)
(* (config.ParseDynamicConfig) and the connection-URL builder             *)
(* (utils.GenerateVlessURL).                                               *)
(*                                                                         *)
(* Go strings are sequences of one-character strings, so that parsing and  *)
(* formatting are computed and not assumed.  A Go interface{} value is a   *)
(* tagged pair <<tag, payload>>:                                           *)
(*   <<"nil", 0>>          the nil interface                               *)
(*   <<"bool", b>>         bool                                            *)
(*   <<"string", s>>       string (s a sequence of characters)             *)
(*   <<"float64", n>>      float64 as decoded from JSON, n in tenths       *)
(*   <<"int", n>>          int                                             *)
(*   <<"ref", a>>          a map or a slice: the container at address a    *)
(* A heap cell is <<"map", f>> (map[string]interface{}), <<"slice", s>>    *)
(* ([]interface{}) or <<"strs", s>> ([]string).  Maps and slices have      *)
(* identity: two values with the same address are the same container.     *)
(* An address is <<o, i>>: the i-th container allocated by o, where o is   *)
(* 0 for main (the template store) and r for the goroutine of request r;   *)
(* the heap maps each o to the list of the containers it allocated.        *)
(* A document written as a value (a file's JSON, or what a container       *)
(* holds, read structurally) uses the same tags with the children inline.  *)
(***************************************************************************)
EXTENDS Integers, Sequences, FiniteSets, TLC

VARIABLES
    phase,      \* "loading" | "serving" | "exited": position of main
    files,      \* the embedded file system: type -> document, or a failure
    types,      \* cfg.Templates.Types, the list handed to LoadTemplates
    loadIdx,    \* index in types of the next template to load
    heap,       \* all maps and slices ever allocated
    templates,  \* Manager.templates: type -> reference of the stored map
    loaded,     \* history: type -> the document json.Unmarshal produced
    req,        \* per request in flight: its locals and its position
    returned,   \* references handed to a caller of the Manager's API
    calls,      \* number of API calls made by the caller
    muts,       \* the writes the caller made to returned values
    lastGet,    \* the latest GetTemplate call of the caller and its result
    given,      \* the document handed to a function called on its own
    http,       \* the HTTP server: its startup, and the exchange it handles
    loadErr     \* the error LoadTemplates returned, or nil

vars == <<phase, files, types, loadIdx, heap, templates, loaded, req,
          returned, calls, muts, lastGet, given, http, loadErr>>

-----------------------------------------------------------------------------
(* Strings *)

DefaultServer == <<"v", "l", "e", "s", "s", ".", "e", "x", "a", "m", "p", "l", "e", ".", "c", "o", "m">>
DefaultWSPath == <<"/", "w", "e", "b", "s", "o", "c", "k", "e", "t">>
DefaultDNSServer == <<"8", ".", "8", ".", "8", ".", "8">>
DefaultDOHServer == <<"h", "t", "t", "p", "s", ":", "/", "/", "2", "2", "3", ".", "5", ".", "5", ".", "5", "/", "d", "n", "s", "-", "q", "u", "e", "r", "y">>
DefaultTunAddress == <<"1", "7", "2", ".", "1", "9", ".", "0", ".", "1", "/", "2", "8">>
DefaultServerPort == 443
DefaultMixedPort == 2080
DefaultTunMTU == 9000

TypeVless == <<"v", "l", "e", "s", "s">>
TypeOther == <<"s", "b">>
TypeNoSuch == <<"n", "o">>

-----------------------------------------------------------------------------
(* Values and the heap *)

NilV == <<"nil", 0>>
\* What a map has at a key it does not have.
Absent == <<"absent", 0>>
BoolV(b) == <<"bool", b>>
StrV(s) == <<"string", s>>
F64V(n) == <<"float64", 10 * n>>
IntV(n) == <<"int", n>>
MapV(f) == <<"map", f>>
SliceV(s) == <<"slice", s>>
StrsV(s) == <<"strs", s>>

EmptyMap == [k \in {} |-> NilV]

\* make(...) by o: a new container at o's next address.
Alloc(h, o, cell) ==
    [h |-> [h EXCEPT ![o] = Append(@, cell)], r |-> <<"ref", <<o, Len(h[o]) + 1>>>>]

At(h, a) == h[a[1]][a[2]]
OwnerOf(r) == r[2][1]

\* v.(map[string]interface{}), v.([]interface{}): the type assertions.
IsMap(h, v) == v[1] = "ref" /\ At(h, v[2])[1] = "map"
IsSlice(h, v) == v[1] = "ref" /\ At(h, v[2])[1] = "slice"
IsStr(v) == v[1] = "string"

Cell(h, r) == At(h, r[2])[2]
HasKey(h, r, k) == k \in DOMAIN Cell(h, r)
\* m[k]: the nil interface when the key is absent.
MapGet(h, r, k) == IF HasKey(h, r, k) THEN Cell(h, r)[k] ELSE NilV
\* m[k] = v
MapSet(h, r, k, v) ==
    [h EXCEPT ![r[2][1]][r[2][2]] = <<"map", (k :> v) @@ @[2]>>]
\* delete(m, k)
MapDel(h, r, k) ==
    [h EXCEPT ![r[2][1]][r[2][2]] =
                 <<"map", [x \in (DOMAIN @[2]) \ {k} |-> @[2][x]]>>]
\* s[i] = v
SliceSet(h, r, i, v) ==
    [h EXCEPT ![r[2][1]][r[2][2]] = <<@[1], [@[2] EXCEPT ![i] = v]>>]

\* The document a value holds, read structurally (containers inline).
RECURSIVE Read(_, _)
Read(h, v) ==
    IF v[1] # "ref" THEN v
    ELSE LET c == At(h, v[2]) IN
         IF c[1] = "strs" THEN c
         ELSE <<c[1], [k \in DOMAIN c[2] |-> Read(h, c[2][k])]>>

\* The addresses reachable from a value.
RECURSIVE Reach(_, _)
Reach(h, v) ==
    IF v[1] # "ref" THEN {}
    ELSE LET c == At(h, v[2]) IN
         IF c[1] = "strs" THEN {v[2]}
         ELSE {v[2]} \cup UNION {Reach(h, c[2][k]) : k \in DOMAIN c[2]}

\* A list of the elements of a set.
RECURSIVE SeqOf(_)
SeqOf(S) == IF S = {} THEN <<>>
            ELSE LET x == CHOOSE y \in S : TRUE IN <<x>> \o SeqOf(S \ {x})
IndexOf(seq, x) == CHOOSE i \in 1..Len(seq) : seq[i] = x

\* The paths (sequences of keys and indexes) of the objects and arrays of a
\* document, the document itself at <<>>.
RECURSIVE DocPaths(_)
DocPaths(doc) ==
    IF doc[1] \notin {"map", "slice"} THEN {}
    ELSE {<<>>} \cup UNION {{<<k>> \o p : p \in DocPaths(doc[2][k])} : k \in DOMAIN doc[2]}
RECURSIVE DocAt(_, _)
DocAt(doc, p) == IF p = <<>> THEN doc ELSE DocAt(doc[2][Head(p)], Tail(p))

\* json.Unmarshal into a fresh map[string]interface{}: every object and
\* array of the document becomes a new container, scalars are stored as
\* they are.
Unmarshal(h, doc, o) ==
    LET ps == SeqOf(DocPaths(doc))
        at(p) == <<"ref", <<o, Len(h[o]) + IndexOf(ps, p)>>>>
        cell(p) == LET src == DocAt(doc, p) IN
                   <<src[1], [k \in DOMAIN src[2] |->
                                IF src[2][k][1] \in {"map", "slice"}
                                THEN at(Append(p, k)) ELSE src[2][k]]>>
    IN  [h |-> [h EXCEPT ![o] = @ \o [i \in 1..Len(ps) |-> cell(ps[i])]],
         r |-> at(<<>>)]

-----------------------------------------------------------------------------
(* Manager.deepCopyMap / Manager.deepCopySlice *)

\* The paths of the containers a deep copy of v visits: v and, through maps
\* and slices only, the maps and slices inside it.
RECURSIVE CopiedPaths(_, _)
CopiedPaths(h, v) ==
    IF ~(IsMap(h, v) \/ IsSlice(h, v)) THEN {}
    ELSE {<<>>} \cup UNION {{<<k>> \o p : p \in CopiedPaths(h, Cell(h, v)[k])} :
                              k \in DOMAIN Cell(h, v)}
RECURSIVE Walk(_, _, _)
Walk(h, v, p) == IF p = <<>> THEN v ELSE Walk(h, Cell(h, v)[Head(p)], Tail(p))

\* A copy that shares the nested maps and slices with the original.
deepCopyValue_shallow(h, v, copy) == v

\* The type switch on each value of a map or slice: a map or a slice is
\* replaced by its copy, anything else is stored as it is.
deepCopyValue(h, v, copy) ==
    IF IsMap(h, v) THEN copy
    ELSE IF IsSlice(h, v) THEN copy
    ELSE v

\* deepCopyMap and deepCopySlice, which call each other, run by o: one new
\* container (make) for the original and for each map and slice nested in
\* it.
deepCopy(h, original, o) ==
    LET ps == SeqOf(CopiedPaths(h, original))
        at(p) == <<"ref", <<o, Len(h[o]) + IndexOf(ps, p)>>>>
        cell(p) == LET src == Walk(h, original, p) IN
                   <<At(h, src[2])[1], [k \in DOMAIN Cell(h, src) |->
                        deepCopyValue(h, Cell(h, src)[k], at(Append(p, k)))]>>
    IN  [h |-> [h EXCEPT ![o] = @ \o [i \in 1..Len(ps) |-> cell(ps[i])]],
         r |-> at(<<>>)]
deepCopyMap(h, original, o) == deepCopy(h, original, o)
deepCopySlice(h, original, o) == deepCopy(h, original, o)

-----------------------------------------------------------------------------
(* config.DynamicConfig, config.ParseDynamicConfig *)

DefaultDynamicConfig ==
    [Server |-> DefaultServer, ServerPort |-> DefaultServerPort,
     WSPath |-> DefaultWSPath, DNSServer |-> DefaultDNSServer,
     DOHServer |-> DefaultDOHServer, TunAddress |-> DefaultTunAddress,
     MixedPort |-> DefaultMixedPort, TunMTU |-> DefaultTunMTU]

Digits == <<"0", "1", "2", "3", "4", "5", "6", "7", "8", "9">>
IsDigit(c) == \E d \in 1..10 : Digits[d] = c
DigitVal(c) == (CHOOSE d \in 1..10 : Digits[d] = c) - 1

RECURSIVE Num(_)
Num(ds) == IF ds = <<>> THEN 0
           ELSE 10 * Num(SubSeq(ds, 1, Len(ds) - 1)) + DigitVal(ds[Len(ds)])

\* strconv.Atoi: an optional sign, then one or more decimal digits and
\* nothing else.  (The out-of-range error needs more than 18 digits and is
\* beyond the lengths explored.)
Atoi(s) ==
    LET signed == s # <<>> /\ s[1] \in {"+", "-"}
        body == IF signed THEN Tail(s) ELSE s
    IN  IF body = <<>> \/ \E i \in 1..Len(body) : ~IsDigit(body[i])
        THEN [n |-> 0, ok |-> FALSE]
        ELSE [n |-> IF s[1] = "-" THEN 0 - Num(body) ELSE Num(body), ok |-> TRUE]

\* url.Values.Get: the first value of the key, "" when there is none.
QueryGet(query, key) ==
    IF key \in DOMAIN query /\ Len(query[key]) > 0 THEN query[key][1] ELSE <<>>

\* The string stored without the check that it is not empty.
ParseString_acceptsEmpty(config, query, key, field) ==
    IF key \in DOMAIN query
    THEN [config EXCEPT ![field] = QueryGet(query, key)]
    ELSE config

ParseString(config, query, key, field) ==
    IF QueryGet(query, key) # <<>>
    THEN [config EXCEPT ![field] = QueryGet(query, key)]
    ELSE config

\* The number stored without the check of Atoi's error.
ParseInt_ignoresError(config, query, key, field) ==
    IF QueryGet(query, key) # <<>>
    THEN [config EXCEPT ![field] = Atoi(QueryGet(query, key)).n]
    ELSE config

ParseInt(config, query, key, field) ==
    IF QueryGet(query, key) # <<>> /\ Atoi(QueryGet(query, key)).ok
    THEN [config EXCEPT ![field] = Atoi(QueryGet(query, key)).n]
    ELSE config

ParseDynamicConfig(query) ==
    LET c0 == DefaultDynamicConfig
        c1 == ParseString(c0, query, "server", "Server")
        c2 == ParseInt(c1, query, "port", "ServerPort")
        c3 == ParseString(c2, query, "ws-path", "WSPath")
        c4 == ParseString(c3, query, "dns-server", "DNSServer")
        c5 == ParseString(c4, query, "doh-server", "DOHServer")
        c6 == ParseString(c5, query, "tun-address", "TunAddress")
        c7 == ParseInt(c6, query, "mixed-port", "MixedPort")
        c8 == ParseInt(c7, query, "tun-mtu", "TunMTU")
    IN  c8

-----------------------------------------------------------------------------
(* Manager.updateTemplateWithDynamicConfig, in its three blocks *)

\* The tls.server_name write without the check that the key exists.
updateOutbound_createsServerName(h, template, dynamicCfg) ==
    LET outbounds == MapGet(h, template, "outbounds") IN
    IF ~(IsSlice(h, outbounds) /\ Len(Cell(h, outbounds)) > 0) THEN h
    ELSE
    LET outbound == Cell(h, outbounds)[1] IN
    IF ~IsMap(h, outbound) THEN h
    ELSE
    LET h1 == MapSet(h, outbound, "server", StrV(dynamicCfg.Server))
        h2 == MapSet(h1, outbound, "server_port", IntV(dynamicCfg.ServerPort))
        transport == MapGet(h2, outbound, "transport")
        h3 == IF IsMap(h2, transport)
              THEN MapSet(h2, transport, "path", StrV(dynamicCfg.WSPath))
              ELSE h2
        headers == IF IsMap(h2, transport)
                   THEN MapGet(h3, transport, "headers") ELSE NilV
        h4 == IF IsMap(h3, headers)
              THEN MapSet(h3, headers, "Host", StrV(dynamicCfg.Server))
              ELSE h3
        tls == MapGet(h4, outbound, "tls")
        h5 == IF IsMap(h4, tls)
              THEN MapSet(h4, tls, "server_name", StrV(dynamicCfg.Server))
              ELSE h4
    IN  h5

\* outbounds[0]: server, server_port, transport.path,
\* transport.headers.Host, tls.server_name
updateOutbound(h, template, dynamicCfg) ==
    LET outbounds == MapGet(h, template, "outbounds") IN
    IF ~(IsSlice(h, outbounds) /\ Len(Cell(h, outbounds)) > 0) THEN h
    ELSE
    LET outbound == Cell(h, outbounds)[1] IN
    IF ~IsMap(h, outbound) THEN h
    ELSE
    LET h1 == MapSet(h, outbound, "server", StrV(dynamicCfg.Server))
        h2 == MapSet(h1, outbound, "server_port", IntV(dynamicCfg.ServerPort))
        transport == MapGet(h2, outbound, "transport")
        h3 == IF IsMap(h2, transport)
              THEN MapSet(h2, transport, "path", StrV(dynamicCfg.WSPath))
              ELSE h2
        headers == IF IsMap(h2, transport)
                   THEN MapGet(h3, transport, "headers") ELSE NilV
        h4 == IF IsMap(h3, headers)
              THEN MapSet(h3, headers, "Host", StrV(dynamicCfg.Server))
              ELSE h3
        tls == MapGet(h4, outbound, "tls")
        h5 == IF IsMap(h4, tls) /\ HasKey(h4, tls, "server_name")
              THEN MapSet(h4, tls, "server_name", StrV(dynamicCfg.Server))
              ELSE h4
    IN  h5

\* The DNS address written to every server of the list.
RECURSIVE SetAddresses(_, _, _, _)
SetAddresses(h, servers, i, address) ==
    IF i > Len(Cell(h, servers)) THEN h
    ELSE SetAddresses(IF IsMap(h, Cell(h, servers)[i])
                      THEN MapSet(h, Cell(h, servers)[i], "address", address)
                      ELSE h,
                      servers, i + 1, address)
updateDNS_everyServer(h, template, dynamicCfg) ==
    LET dns == MapGet(h, template, "dns") IN
    IF ~IsMap(h, dns) THEN h
    ELSE
    LET servers == MapGet(h, dns, "servers") IN
    IF ~(IsSlice(h, servers) /\ Len(Cell(h, servers)) >= 2) THEN h
    ELSE SetAddresses(h, servers, 1, StrV(dynamicCfg.DNSServer))

\* dns.servers[0].address and dns.servers[1].address
updateDNS(h, template, dynamicCfg) ==
    LET dns == MapGet(h, template, "dns") IN
    IF ~IsMap(h, dns) THEN h
    ELSE
    LET servers == MapGet(h, dns, "servers") IN
    IF ~(IsSlice(h, servers) /\ Len(Cell(h, servers)) >= 2) THEN h
    ELSE
    LET server0 == Cell(h, servers)[1]
        h1 == IF IsMap(h, server0)
              THEN MapSet(h, server0, "address", StrV(dynamicCfg.DNSServer))
              ELSE h
        server1 == Cell(h1, servers)[2]
        h2 == IF IsMap(h1, server1)
              THEN MapSet(h1, server1, "address", StrV(dynamicCfg.DOHServer))
              ELSE h1
    IN  h2

\* The mixed port written to the first inbound instead of the second.
updateInbounds_wrongIndex(h, template, dynamicCfg) ==
    LET inbounds == MapGet(h, template, "inbounds") IN
    IF ~IsSlice(h, inbounds) THEN h
    ELSE
    LET inbound == IF Len(Cell(h, inbounds)) > 0 THEN Cell(h, inbounds)[1] ELSE NilV
        addr == Alloc(h, OwnerOf(template), StrsV(<<dynamicCfg.TunAddress>>))
        h1 == IF IsMap(h, inbound)
              THEN MapSet(MapSet(addr.h, inbound, "inet4_address", addr.r),
                          inbound, "mtu", IntV(dynamicCfg.TunMTU))
              ELSE h
        h2 == IF Len(Cell(h1, inbounds)) > 1 /\ IsMap(h1, inbound)
              THEN MapSet(h1, inbound, "listen_port", IntV(dynamicCfg.MixedPort))
              ELSE h1
    IN  h2

\* The TUN address appended to the list a previous call left.
updateInbounds_appendsAddress(h, template, dynamicCfg) ==
    LET inbounds == MapGet(h, template, "inbounds") IN
    IF ~IsSlice(h, inbounds) THEN h
    ELSE
    LET inbound == IF Len(Cell(h, inbounds)) > 0 THEN Cell(h, inbounds)[1] ELSE NilV
        old == IF IsMap(h, inbound) THEN MapGet(h, inbound, "inet4_address") ELSE NilV
        kept == IF old[1] = "ref" /\ At(h, old[2])[1] = "strs" THEN Cell(h, old) ELSE <<>>
        addr == Alloc(h, OwnerOf(template),
                      StrsV(Append(kept, dynamicCfg.TunAddress)))
        h1 == IF IsMap(h, inbound)
              THEN MapSet(MapSet(addr.h, inbound, "inet4_address", addr.r),
                          inbound, "mtu", IntV(dynamicCfg.TunMTU))
              ELSE h
        inboundMixed == IF Len(Cell(h1, inbounds)) > 1
                        THEN Cell(h1, inbounds)[2] ELSE NilV
        h2 == IF IsMap(h1, inboundMixed)
              THEN MapSet(h1, inboundMixed, "listen_port", IntV(dynamicCfg.MixedPort))
              ELSE h1
    IN  h2

\* inbounds[0].inet4_address, inbounds[0].mtu, inbounds[1].listen_port.
\* The []string literal is allocated by the goroutine that owns the copy.
updateInbounds(h, template, dynamicCfg) ==
    LET inbounds == MapGet(h, template, "inbounds") IN
    IF ~IsSlice(h, inbounds) THEN h
    ELSE
    LET inbound == IF Len(Cell(h, inbounds)) > 0 THEN Cell(h, inbounds)[1] ELSE NilV
        addr == Alloc(h, OwnerOf(template), StrsV(<<dynamicCfg.TunAddress>>))
        h1 == IF IsMap(h, inbound)
              THEN MapSet(MapSet(addr.h, inbound, "inet4_address", addr.r),
                          inbound, "mtu", IntV(dynamicCfg.TunMTU))
              ELSE h
        inboundMixed == IF Len(Cell(h1, inbounds)) > 1
                        THEN Cell(h1, inbounds)[2] ELSE NilV
        h2 == IF IsMap(h1, inboundMixed)
              THEN MapSet(h1, inboundMixed, "listen_port", IntV(dynamicCfg.MixedPort))
              ELSE h1
    IN  h2

updateTemplateWithDynamicConfig(h, template, dynamicCfg) ==
    updateInbounds(updateDNS(updateOutbound(h, template, dynamicCfg),
                             template, dynamicCfg),
                   template, dynamicCfg)

\* The uuid written whatever the type of the first outbound.
setUUID_anyType(h, template, uuid) ==
    LET outbounds == MapGet(h, template, "outbounds") IN
    IF ~(IsSlice(h, outbounds) /\ Len(Cell(h, outbounds)) > 0) THEN h
    ELSE
    LET outbound == Cell(h, outbounds)[1] IN
    IF IsMap(h, outbound)
    THEN MapSet(h, outbound, "uuid", StrV(uuid))
    ELSE h

\* GenerateConfig, lines 98-106: the uuid of the first outbound.
setUUID(h, template, uuid) ==
    LET outbounds == MapGet(h, template, "outbounds") IN
    IF ~(IsSlice(h, outbounds) /\ Len(Cell(h, outbounds)) > 0) THEN h
    ELSE
    LET outbound == Cell(h, outbounds)[1] IN
    IF IsMap(h, outbound) /\ MapGet(h, outbound, "type") = StrV(TypeVless)
    THEN MapSet(h, outbound, "uuid", StrV(uuid))
    ELSE h

\* Manager.GetTemplate called by o: the lookup and the deep copy.
GetTemplate(h, tmpls, templateType, o) ==
    IF templateType \in DOMAIN tmpls
    THEN LET c == deepCopyMap(h, tmpls[templateType], o)
         IN  [h |-> c.h, r |-> c.r, exists |-> TRUE]
    ELSE [h |-> h, r |-> NilV, exists |-> FALSE]

\* Manager.GenerateConfig as one call.
GenerateConfig(h, tmpls, templateType, uuid, dynamicCfg, o) ==
    LET t == GetTemplate(h, tmpls, templateType, o) IN
    IF ~t.exists THEN [h |-> h, r |-> NilV, err |-> TRUE]
    ELSE [h |-> setUUID(updateTemplateWithDynamicConfig(t.h, t.r, dynamicCfg),
                        t.r, uuid),
          r |-> t.r, err |-> FALSE]

-----------------------------------------------------------------------------
(* utils.GenerateVlessURL *)

UrlScheme == <<"v", "l", "e", "s", "s", ":", "/", "/">>
UrlQuery == <<"?", "t", "y", "p", "e", "=", "w", "s", "&", "p", "a", "t", "h", "=">>
UrlHost == <<"&", "h", "o", "s", "t", "=">>
UrlTail == <<"&", "s", "e", "c", "u", "r", "i", "t", "y", "=", "t", "l", "s", "&", "f", "p", "=", "c", "h", "r", "o", "m", "e">>
FallbackPort == 443

\* The %d verb: decimal digits, a leading "-" for a negative number.
RECURSIVE FormatNat(_)
FormatNat(n) == IF n < 10 THEN <<Digits[n + 1]>>
                ELSE Append(FormatNat(n \div 10), Digits[(n % 10) + 1])
FormatInt(n) == IF n < 0 THEN <<"-">> \o FormatNat(0 - n) ELSE FormatNat(n)

\* int(v) of a float64: truncation toward zero (the payload is in tenths).
TruncFloat(t) == IF t >= 0 THEN t \div 10 ELSE 0 - ((0 - t) \div 10)

\* The switch without the fallback: port 0 for what is no number.
ServerPortOf_noFallback(v) ==
    IF v[1] = "int" THEN v[2]
    ELSE IF v[1] = "float64" THEN TruncFloat(v[2])
    ELSE 0

\* The type switch on outbound["server_port"].
ServerPortOf(v) ==
    IF v[1] = "int" THEN v[2]
    ELSE IF v[1] = "float64" THEN TruncFloat(v[2])
    ELSE FallbackPort

UrlError == [url |-> <<>>, err |-> TRUE]

\* The path and the host in each other's place.
FormatVlessURL_swapped(uuid, server, serverPort, path, host) ==
    UrlScheme \o uuid \o <<"@">> \o server \o <<":">> \o FormatInt(serverPort)
        \o UrlQuery \o host \o UrlHost \o path \o UrlTail

FormatVlessURL(uuid, server, serverPort, path, host) ==
    UrlScheme \o uuid \o <<"@">> \o server \o <<":">> \o FormatInt(serverPort)
        \o UrlQuery \o path \o UrlHost \o host \o UrlTail

\* The URL built without the checks on headers and Host.
GenerateVlessURL_uncheckedHost(h, template, uuid) ==
    LET outbounds == MapGet(h, template, "outbounds") IN
    IF ~IsSlice(h, outbounds) \/ Len(Cell(h, outbounds)) = 0 THEN UrlError
    ELSE
    LET outbound == Cell(h, outbounds)[1] IN
    IF ~IsMap(h, outbound) THEN UrlError
    ELSE
    LET server == MapGet(h, outbound, "server") IN
    IF ~IsStr(server) THEN UrlError
    ELSE
    LET serverPort == ServerPortOf(MapGet(h, outbound, "server_port"))
        transport == MapGet(h, outbound, "transport")
    IN
    IF ~IsMap(h, transport) THEN UrlError
    ELSE
    LET path == MapGet(h, transport, "path") IN
    IF ~IsStr(path) THEN UrlError
    ELSE
    LET headers == MapGet(h, transport, "headers")
        host == IF IsMap(h, headers) THEN MapGet(h, headers, "Host") ELSE NilV
    IN  [url |-> FormatVlessURL(uuid, server[2], serverPort, path[2],
                                IF IsStr(host) THEN host[2] ELSE <<>>),
         err |-> FALSE]

GenerateVlessURL(h, template, uuid) ==
    LET outbounds == MapGet(h, template, "outbounds") IN
    IF ~IsSlice(h, outbounds) \/ Len(Cell(h, outbounds)) = 0 THEN UrlError
    ELSE
    LET outbound == Cell(h, outbounds)[1] IN
    IF ~IsMap(h, outbound) THEN UrlError
    ELSE
    LET server == MapGet(h, outbound, "server") IN
    IF ~IsStr(server) THEN UrlError
    ELSE
    LET serverPort == ServerPortOf(MapGet(h, outbound, "server_port"))
        transport == MapGet(h, outbound, "transport")
    IN
    IF ~IsMap(h, transport) THEN UrlError
    ELSE
    LET path == MapGet(h, transport, "path") IN
    IF ~IsStr(path) THEN UrlError
    ELSE
    LET headers == MapGet(h, transport, "headers") IN
    IF ~IsMap(h, headers) THEN UrlError
    ELSE
    LET host == MapGet(h, headers, "Host") IN
    IF ~IsStr(host) THEN UrlError
    ELSE [url |-> FormatVlessURL(uuid, server[2], serverPort, path[2], host[2]),
          err |-> FALSE]

-----------------------------------------------------------------------------
(* The embedded files: template documents of several shapes *)

TplHost == <<"t", ".", "i", "o">>
TplPath == <<"/", "t">>
TplDNS == <<"1", ".", "1", ".", "1", ".", "1">>
TplDOH == <<"t", "l", "s", ":", "/", "/", "d">>
TplTun == <<"1", "0", ".", "0", ".", "0", ".", "1", "/", "3", "0">>
TplUUID == <<"t", "p", "l", "-", "i", "d">>
Ws == <<"w", "s">>
Tun == <<"t", "u", "n">>
Mixed == <<"m", "i", "x", "e", "d">>
Direct == <<"d", "i", "r", "e", "c", "t">>
Info == <<"i", "n", "f", "o">>

TransportDoc ==
    MapV([type |-> StrV(Ws), path |-> StrV(TplPath),
          headers |-> MapV([Host |-> StrV(TplHost)])])

DnsDoc(servers) ==
    MapV([servers |-> SliceV(servers),
          rules |-> SliceV(<<MapV([server |-> StrV(Direct)])>>),
          final |-> StrV(Direct)])

DnsServerDoc(tag, address) == MapV([tag |-> StrV(tag), address |-> StrV(address)])

TunDoc ==
    MapV([type |-> StrV(Tun), inet4_address |-> SliceV(<<StrV(TplTun)>>),
          mtu |-> F64V(1500), auto_route |-> BoolV(TRUE)])

MixedDoc(port) == MapV([type |-> StrV(Mixed), listen_port |-> F64V(port)])

\* The shape the generator expects: a vless outbound with transport, headers
\* and tls.server_name, two DNS servers, a TUN and a mixed inbound; and
\* more of each list than the generator touches.
DocExpected ==
    MapV([log |-> MapV([level |-> StrV(Info)]),
          dns |-> DnsDoc(<<DnsServerDoc(Ws, TplDNS), DnsServerDoc(Tun, TplDOH),
                           DnsServerDoc(Direct, TplDNS)>>),
          inbounds |-> SliceV(<<TunDoc, MixedDoc(1080), MixedDoc(1081)>>),
          outbounds |-> SliceV(<<
              MapV([type |-> StrV(TypeVless), server |-> StrV(TplHost),
                    server_port |-> F64V(8443), uuid |-> StrV(TplUUID),
                    transport |-> TransportDoc,
                    tls |-> MapV([enabled |-> BoolV(TRUE),
                                  server_name |-> StrV(TplHost)])]),
              MapV([type |-> StrV(TypeVless), server |-> StrV(TplDNS),
                    uuid |-> StrV(TplUUID)])>>)])

\* A first outbound that is not vless and carries a uuid of its own, a tls
\* object without server_name, exactly two DNS servers and two inbounds.
DocOther ==
    MapV([dns |-> DnsDoc(<<DnsServerDoc(Ws, TplDNS), DnsServerDoc(Tun, TplDOH)>>),
          inbounds |-> SliceV(<<TunDoc, MixedDoc(1080)>>),
          outbounds |-> SliceV(<<
              MapV([type |-> StrV(Direct), server |-> StrV(TplHost),
                    server_port |-> F64V(8443), uuid |-> StrV(TplUUID),
                    transport |-> TransportDoc,
                    tls |-> MapV([enabled |-> BoolV(TRUE)])]),
              MapV([type |-> StrV(TypeVless), uuid |-> StrV(TplUUID)])>>)])

\* A first outbound without type, uuid and tls; one DNS server; one inbound.
DocNoType ==
    MapV([dns |-> DnsDoc(<<DnsServerDoc(Ws, TplDNS)>>),
          inbounds |-> SliceV(<<TunDoc>>),
          outbounds |-> SliceV(<<
              MapV([server |-> StrV(TplHost), server_port |-> F64V(8443),
                    transport |-> TransportDoc])>>)])

\* Containers missing, empty or of another type.
DocOdd ==
    MapV([dns |-> StrV(TplDNS),
          inbounds |-> SliceV(<<StrV(Tun), F64V(1)>>),
          outbounds |-> SliceV(<<>>)])

FileOf(doc) == <<"file", doc>>
Unreadable == <<"unreadable", 0>>
BadJSON == <<"badjson", 0>>

\* cfg.Templates.Types with the files found for them.
Deployments ==
    { [types |-> <<TypeVless>>, files |-> (TypeVless :> FileOf(DocExpected))],
      [types |-> <<TypeVless>>, files |-> (TypeVless :> FileOf(DocNoType))],
      [types |-> <<TypeVless, TypeOther>>,
       files |-> (TypeVless :> FileOf(DocExpected)) @@ (TypeOther :> FileOf(DocOther))],
      [types |-> <<TypeOther, TypeVless>>,
       files |-> (TypeVless :> FileOf(DocOdd)) @@ (TypeOther :> FileOf(DocNoType))],
      [types |-> <<TypeVless, TypeOther>>,
       files |-> (TypeVless :> FileOf(DocOther)) @@ (TypeOther :> Unreadable)],
      [types |-> <<TypeOther, TypeVless>>,
       files |-> (TypeVless :> BadJSON) @@ (TypeOther :> FileOf(DocNoType))],
      [types |-> <<TypeVless, TypeOther, TypeNoSuch>>,
       files |-> (TypeVless :> FileOf(DocExpected)) @@ (TypeOther :> BadJSON)
                    @@ (TypeNoSuch :> FileOf(DocNoType))] }

-----------------------------------------------------------------------------
(* Requests *)

NumRequests == 2
Rids == 1..NumRequests
Main == 0
Owners == {Main} \cup Rids
EmptyHeap == [o \in Owners |-> <<>>]

ReqServer == <<"e", "x", ".", "c", "o", "m">>
ReqPath == <<"/", "w", "s">>
ReqDNS == <<"9", ".", "9", ".", "9", ".", "9">>
ReqDOH == <<"h", "3", ":", "/", "/", "q">>
ReqTun == <<"1", "0", ".", "9", ".", "0", ".", "1", "/", "2", "4">>
UuidA == <<"a", "b", "c">>
UuidB == <<"b", "-", "2">>

One(s) == <<s>>

QueryEmpty == [k \in {} |-> <<>>]
QueryExample ==
    [k \in {"server", "port", "ws-path"} |->
        IF k = "server" THEN One(ReqServer)
        ELSE IF k = "port" THEN One(<<"8", "0">>)
        ELSE One(ReqPath)]
QueryNetwork ==
    [k \in {"dns-server", "doh-server", "tun-address", "mixed-port", "tun-mtu", "lang"} |->
        IF k = "dns-server" THEN One(ReqDNS)
        ELSE IF k = "doh-server" THEN One(ReqDOH)
        ELSE IF k = "tun-address" THEN One(ReqTun)
        ELSE IF k = "mixed-port" THEN One(<<"1", "0">>)
        ELSE IF k = "tun-mtu" THEN One(<<"1", "4", "x">>)
        ELSE One(<<"r", "u">>)]

\* What a request may ask for: type, uuid and query.
RequestInputs ==
    { [configType |-> TypeVless, uuid |-> UuidA, query |-> QueryExample],
      [configType |-> TypeVless, uuid |-> UuidB, query |-> QueryNetwork],
      [configType |-> TypeVless, uuid |-> <<>>, query |-> QueryEmpty],
      [configType |-> TypeOther, uuid |-> UuidA, query |-> QueryNetwork],
      [configType |-> TypeNoSuch, uuid |-> UuidB, query |-> QueryExample] }

NoGet == [type |-> <<>>, exists |-> FALSE, doc |-> NilV, after |-> 0]

NoURL == [url |-> <<>>, err |-> FALSE]

\* No HTTP server: the Manager and the functions are used directly.
NoHTTP == <<"none", 0>>

Idle ==
    [pc |-> "idle", configType |-> <<>>, uuid |-> <<>>, query |-> QueryEmpty,
     dynamicCfg |-> DefaultDynamicConfig, template |-> NilV, err |-> FALSE,
     resp |-> NilV, url |-> NoURL]

-----------------------------------------------------------------------------
(* Startup: main, Manager.LoadTemplates, Manager.loadTemplate *)

Init ==
    /\ phase = "loading"
    /\ \E d \in Deployments : types = d.types /\ files = d.files
    /\ loadIdx = 1
    /\ heap = EmptyHeap
    /\ templates = [t \in {} |-> NilV]
    /\ loaded = [t \in {} |-> NilV]
    /\ req = [r \in Rids |-> Idle]
    /\ returned = {}
    /\ calls = 0
    /\ muts = {}
    /\ lastGet = NoGet
    /\ given = NilV
    /\ http = NoHTTP
    /\ loadErr = NilV

\* fmt.Errorf("failed to load template %s: %w", templateType, err), where
\* err is the failure of the read or of the parse.
LoadError(templateType, file) ==
    <<"error", templateType, IF file = Unreadable THEN "read" ELSE "parse">>

\* The loop going on to the next type after a failure, without an error.
loadTemplate_skipsFailure ==
    /\ phase = "loading"
    /\ loadIdx <= Len(types)
    /\ LET templateType == types[loadIdx]
           file == files[templateType]
       IN  IF file[1] = "file"
           THEN LET u == Unmarshal(heap, file[2], Main) IN
                /\ heap' = u.h
                /\ templates' = (templateType :> u.r) @@ templates
                /\ loaded' = (templateType :> file[2]) @@ loaded
           ELSE UNCHANGED <<heap, templates, loaded>>
    /\ loadIdx' = loadIdx + 1
    /\ UNCHANGED <<phase, loadErr>>
    /\ UNCHANGED <<files, types, req, returned, calls, muts, lastGet, given, http>>

\* One iteration of the loop of LoadTemplates: the file is read and parsed
\* and the map stored; on an error LoadTemplates returns it and main exits.
loadTemplate ==
    /\ phase = "loading"
    /\ loadIdx <= Len(types)
    /\ LET templateType == types[loadIdx]
           file == files[templateType]
       IN  IF file[1] = "file"
           THEN LET u == Unmarshal(heap, file[2], Main) IN
                /\ heap' = u.h
                /\ templates' = (templateType :> u.r) @@ templates
                /\ loaded' = (templateType :> file[2]) @@ loaded
                /\ loadIdx' = loadIdx + 1
                /\ phase' = phase
                /\ loadErr' = loadErr
           ELSE /\ phase' = "exited"
                /\ loadErr' = LoadError(templateType, file)
                /\ UNCHANGED <<heap, templates, loaded, loadIdx>>
    /\ UNCHANGED <<files, types, req, returned, calls, muts, lastGet, given, http>>

\* LoadTemplates returned nil: the handlers are registered and the server
\* listens.
StartServing ==
    /\ phase = "loading"
    /\ loadIdx > Len(types)
    /\ phase' = "serving"
    /\ UNCHANGED <<files, types, loadIdx, heap, templates, loaded, req,
                   returned, calls, muts, lastGet, given, http, loadErr>>

-----------------------------------------------------------------------------
(* One request, step by step *)

ReqFrame == UNCHANGED <<phase, files, types, loadIdx, templates, loaded,
                        returned, calls, muts, lastGet, given, http, loadErr>>

\* A request arrives with its path and query, and the handler parses the
\* query: dynamicCfg := config.ParseDynamicConfig(r.URL.Query()).  Requests
\* are numbered in the order of their arrival.
Arrive(r) ==
    /\ phase = "serving"
    /\ req[r].pc = "idle"
    /\ \A q \in Rids : q < r => req[q].pc # "idle"
    /\ \E in \in RequestInputs :
          req' = [req EXCEPT ![r] = [Idle EXCEPT !.pc = "lookup",
                                                 !.configType = in.configType,
                                                 !.uuid = in.uuid,
                                                 !.query = in.query,
                                                 !.dynamicCfg = ParseDynamicConfig(in.query)]]
    /\ UNCHANGED heap
    /\ ReqFrame

\* The lookup failing also for a template without a first outbound.
Lookup_requiresOutbounds(r) ==
    /\ req[r].pc = "lookup"
    /\ IF /\ req[r].configType \in DOMAIN templates
          /\ LET outbounds == MapGet(heap, templates[req[r].configType], "outbounds")
             IN  IsSlice(heap, outbounds) /\ Len(Cell(heap, outbounds)) > 0
       THEN req' = [req EXCEPT ![r].template = templates[req[r].configType],
                               ![r].pc = "copy"]
       ELSE req' = [req EXCEPT ![r].err = TRUE, ![r].pc = "done"]
    /\ UNCHANGED heap
    /\ ReqFrame

\* GetTemplate: template, exists := m.templates[templateType]
Lookup(r) ==
    /\ req[r].pc = "lookup"
    /\ IF req[r].configType \in DOMAIN templates
       THEN req' = [req EXCEPT ![r].template = templates[req[r].configType],
                               ![r].pc = "copy"]
       ELSE req' = [req EXCEPT ![r].err = TRUE, ![r].pc = "done"]
    /\ UNCHANGED heap
    /\ ReqFrame

\* GetTemplate: return m.deepCopyMap(template), true
Copy(r) ==
    /\ req[r].pc = "copy"
    /\ LET c == deepCopyMap(heap, req[r].template, r) IN
       /\ heap' = c.h
       /\ req' = [req EXCEPT ![r].template = c.r, ![r].pc = "update"]
    /\ ReqFrame

\* m.updateTemplateWithDynamicConfig(template, dynamicCfg)
Update(r) ==
    /\ req[r].pc = "update"
    /\ heap' = updateTemplateWithDynamicConfig(heap, req[r].template,
                                               req[r].dynamicCfg)
    /\ req' = [req EXCEPT ![r].pc = "uuid"]
    /\ ReqFrame

WriteUUID(r) ==
    /\ req[r].pc = "uuid"
    /\ heap' = setUUID(heap, req[r].template, req[r].uuid)
    /\ req' = [req EXCEPT ![r].pc = "respond"]
    /\ ReqFrame

\* The handler encodes the config it was returned into the response.
Respond(r) ==
    /\ req[r].pc = "respond"
    /\ req' = [req EXCEPT ![r].resp = Read(heap, req[r].template),
                          ![r].pc = "done"]
    /\ UNCHANGED heap
    /\ ReqFrame

Next ==
    \/ loadTemplate
    \/ StartServing
    \/ \E r \in Rids : Arrive(r)
    \/ \E r \in Rids : Lookup(r)
    \/ \E r \in Rids : Copy(r)
    \/ \E r \in Rids : Update(r)
    \/ \E r \in Rids : WriteUUID(r)
    \/ \E r \in Rids : Respond(r)

Spec == Init /\ [][Next]_vars

-----------------------------------------------------------------------------
(* A caller of the Manager's API that keeps what it is returned and writes  *)
(* to it                                                                   *)

MaxOps == 3
Caller == 1
Marker == <<"!">>

CallFrame == UNCHANGED <<phase, files, types, loadIdx, templates, loaded,
                         req, given, http, loadErr>>

Ops == calls + Cardinality(muts)

\* template, ok := m.GetTemplate(templateType)
CallGetTemplate ==
    /\ phase = "serving"
    /\ Ops < MaxOps
    /\ \E templateType \in {TypeVless, TypeOther, TypeNoSuch} :
          LET g == GetTemplate(heap, templates, templateType, Caller) IN
          /\ heap' = g.h
          /\ returned' = IF g.exists THEN returned \cup {g.r} ELSE returned
          /\ lastGet' = [type |-> templateType, exists |-> g.exists,
                         doc |-> IF g.exists THEN Read(g.h, g.r) ELSE NilV,
                         after |-> Cardinality(muts)]
    /\ calls' = calls + 1
    /\ UNCHANGED muts
    /\ CallFrame

\* cfg, err := m.GenerateConfig(templateType, uuid, dynamicCfg)
CallGenerateConfig ==
    /\ phase = "serving"
    /\ Ops < MaxOps
    /\ \E in \in RequestInputs :
          LET g == GenerateConfig(heap, templates, in.configType, in.uuid,
                                  ParseDynamicConfig(in.query), Caller) IN
          /\ heap' = g.h
          /\ returned' = IF g.err THEN returned ELSE returned \cup {g.r}
    /\ calls' = calls + 1
    /\ UNCHANGED <<muts, lastGet>>
    /\ CallFrame

\* The keys a caller writes in a map: a new key, and these when present.
CallerKeys(m) == {"x"} \cup (DOMAIN m \cap {"uuid", "Host", "servers"})

\* The caller writes to a container it reaches from a returned value, at
\* any depth: m[k] = v, delete(m, k) or s[i] = v.  muts records the
\* container, the key and the depth of each write.
CallerWrite ==
    /\ Ops < MaxOps
    /\ \E root \in returned : \E p \in CopiedPaths(heap, root) :
          LET c == Walk(heap, root, p)
              a == c[2]
          IN  \E k \in (IF IsMap(heap, c) THEN CallerKeys(Cell(heap, c))
                        ELSE DOMAIN Cell(heap, c)) :
                 /\ \A m \in muts : ~(m[1] = a /\ m[2] = k)
                 /\ muts' = muts \cup {<<a, k, Len(p)>>}
                 /\ \/ /\ IsMap(heap, c)
                       /\ heap' = MapSet(heap, c, k, StrV(Marker))
                    \/ /\ IsMap(heap, c) /\ HasKey(heap, c, k)
                       /\ heap' = MapDel(heap, c, k)
                    \/ /\ IsSlice(heap, c)
                       /\ heap' = SliceSet(heap, c, k, StrV(Marker))
    /\ UNCHANGED <<returned, calls, lastGet>>
    /\ CallFrame

NextStore ==
    \/ loadTemplate
    \/ StartServing
    \/ CallGetTemplate
    \/ CallGenerateConfig
    \/ CallerWrite

SpecStore == Init /\ [][NextStore]_vars

-----------------------------------------------------------------------------
(* config.ParseDynamicConfig called on its own, on queries of a few keys *)

MaxPresent == 2

Empty == <<>>
TextA == <<"a", ".", "b">>
Text80 == <<"8", "0">>
TextMinus1 == <<"-", "1">>
Text70000 == <<"7", "0", "0", "0", "0">>
TextPlus0 == <<"+", "0">>
Text1x == <<"1", "x">>
TextMinus == <<"-">>

\* Keys are case-sensitive: "lang" and "Port" are keys the parser does not
\* look up.
QueryKeys ==
    {"server", "port", "ws-path", "dns-server", "doh-server", "tun-address",
     "mixed-port", "tun-mtu", "lang", "Port"}

\* The values of one key, in the order they appear in the URL.
ValueLists ==
    { <<Empty>>, <<TextA>>, <<Empty, TextA>>, <<Text80>>, <<TextMinus1, TextA>>,
      <<Text70000>>, <<TextPlus0>>, <<Text1x>>, <<TextMinus>> }

ParseQueries ==
    UNION { [ks -> ValueLists] :
            ks \in {x \in SUBSET QueryKeys : Cardinality(x) <= MaxPresent} }

InitParse ==
    /\ phase = "serving"
    /\ files = [t \in {} |-> NilV]
    /\ types = <<>>
    /\ loadIdx = 1
    /\ heap = EmptyHeap
    /\ templates = [t \in {} |-> NilV]
    /\ loaded = [t \in {} |-> NilV]
    /\ \E q \in ParseQueries :
          req = [r \in Rids |-> IF r = 1 THEN [Idle EXCEPT !.pc = "parse", !.query = q]
                                ELSE Idle]
    /\ returned = {}
    /\ calls = 0
    /\ muts = {}
    /\ lastGet = NoGet
    /\ given = NilV
    /\ http = NoHTTP
    /\ loadErr = NilV

\* config := ParseDynamicConfig(query)
Parse(r) ==
    /\ req[r].pc = "parse"
    /\ req' = [req EXCEPT ![r].dynamicCfg = ParseDynamicConfig(req[r].query),
                          ![r].pc = "parsed"]
    /\ UNCHANGED heap
    /\ ReqFrame

NextParse == \E r \in Rids : Parse(r)

SpecParse == InitParse /\ [][NextParse]_vars

-----------------------------------------------------------------------------
(* utils.GenerateVlessURL called on its own, on configs of every shape *)

Obj(f) == MapV([k \in {x \in DOMAIN f : f[x] # Absent} |-> f[k]])

\* server_port values with the decimal text of their integer part.
PortCases ==
    { [v |-> IntV(443), text |-> <<"4", "4", "3">>],
      [v |-> IntV(0), text |-> <<"0">>],
      [v |-> IntV(0 - 1), text |-> <<"-", "1">>],
      [v |-> IntV(65536), text |-> <<"6", "5", "5", "3", "6">>],
      [v |-> F64V(8443), text |-> <<"8", "4", "4", "3">>],
      [v |-> <<"float64", 4435>>, text |-> <<"4", "4", "3">>],
      [v |-> <<"float64", 0 - 15>>, text |-> <<"-", "1">>] }

ServerVals == {Absent, NilV, F64V(1), StrV(Empty), StrV(ReqServer)}
PortVals == {Absent, NilV, StrV(Text80)} \cup {c.v : c \in PortCases}
PathVals == {Absent, BoolV(TRUE), StrV(ReqPath)}
HostVals == {Absent, NilV, MapV(EmptyMap), StrV(ReqServer), StrV(TextA)}
HeadersVals == {Absent, StrV(ReqServer)} \cup {Obj([Host |-> x]) : x \in HostVals}
TransportVals ==
    {Absent, SliceV(<<>>)}
        \cup {Obj([type |-> StrV(Ws), path |-> x, headers |-> y]) :
              x \in PathVals, y \in HeadersVals}
OutboundVals ==
    {StrV(TextA)}
        \cup {Obj([type |-> StrV(TypeVless), server |-> x, server_port |-> y,
                   transport |-> z]) :
              x \in ServerVals, y \in PortVals, z \in TransportVals}
OutboundsVals ==
    {Absent, NilV, StrV(TextA), MapV(EmptyMap), SliceV(<<>>)}
        \cup {SliceV(<<x, Obj([type |-> StrV(Direct), server |-> StrV(TextA)])>>) :
              x \in OutboundVals}
UrlConfigs == {Obj([log |-> StrV(Info), outbounds |-> x]) : x \in OutboundsVals}

InitURL ==
    /\ phase = "serving"
    /\ files = [t \in {} |-> NilV]
    /\ types = <<>>
    /\ loadIdx = 1
    /\ templates = [t \in {} |-> NilV]
    /\ loaded = [t \in {} |-> NilV]
    /\ \E doc \in UrlConfigs : \E uuid \in {Empty, UuidA} :
          LET u == Unmarshal(EmptyHeap, doc, Caller) IN
          /\ given = doc
          /\ http = NoHTTP
          /\ loadErr = NilV
          /\ heap = u.h
          /\ req = [r \in Rids |-> IF r = 1 THEN [Idle EXCEPT !.pc = "url",
                                                            !.template = u.r,
                                                            !.uuid = uuid]
                                   ELSE Idle]
    /\ returned = {}
    /\ calls = 0
    /\ muts = {}
    /\ lastGet = NoGet

\* vlessURL, err := utils.GenerateVlessURL(template, uuid)
BuildURL(r) ==
    /\ req[r].pc = "url"
    /\ req' = [req EXCEPT ![r].url = GenerateVlessURL(heap, req[r].template, req[r].uuid),
                          ![r].pc = "urldone"]
    /\ UNCHANGED heap
    /\ ReqFrame

NextURL == \E r \in Rids : BuildURL(r)

SpecURL == InitURL /\ [][NextURL]_vars

-----------------------------------------------------------------------------
(* Strings: the functions of package strings the handlers call *)

HasPrefix(s, prefix) ==
    Len(s) >= Len(prefix) /\ SubSeq(s, 1, Len(prefix)) = prefix
HasSuffix(s, suffix) ==
    Len(s) >= Len(suffix) /\ SubSeq(s, Len(s) - Len(suffix) + 1, Len(s)) = suffix
TrimSuffix(s, suffix) ==
    IF HasSuffix(s, suffix) THEN SubSeq(s, 1, Len(s) - Len(suffix)) ELSE s

RECURSIVE TrimLeft(_, _)
TrimLeft(s, c) == IF s # <<>> /\ Head(s) = c THEN TrimLeft(Tail(s), c) ELSE s
RECURSIVE TrimRight(_, _)
TrimRight(s, c) ==
    IF s # <<>> /\ s[Len(s)] = c THEN TrimRight(SubSeq(s, 1, Len(s) - 1), c) ELSE s
\* strings.Trim(s, c) for a cutset of one character
Trim(s, c) == TrimRight(TrimLeft(s, c), c)

\* strings.Split(s, c) for a separator of one character: one part more than
\* there are separators, so one empty part for the empty string.
RECURSIVE Split(_, _)
Split(s, c) ==
    IF \A i \in DOMAIN s : s[i] # c THEN <<s>>
    ELSE LET i == CHOOSE j \in DOMAIN s :
                     s[j] = c /\ \A k \in 1..(j - 1) : s[k] # c
         IN  <<SubSeq(s, 1, i - 1)>> \o Split(SubSeq(s, i + 1, Len(s)), c)

Slash == "/"
DotJson == <<".", "j", "s", "o", "n">>
SegConfig == <<"c", "o", "n", "f", "i", "g">>
VlessPrefix == <<"v", "l", "e", "s", "s", ":", "/", "/">>

-----------------------------------------------------------------------------
(* The HTTP requests explored *)

PathRoot == <<"/">>
PathHealth == <<"/", "h", "e", "a", "l", "t", "h">>
PathQRCode == <<"/", "q", "r", "c", "o", "d", "e">>
PatternPage == <<"/", "v", "l", "e", "s", "s", "/">>
PatternDownload == <<"/", "c", "o", "n", "f", "i", "g", "/">>
PatternStatic == <<"/", "s", "t", "a", "t", "i", "c", "/">>

\* Paths the mux hands to a handler as they are (clean paths that are not
\* a registered subtree without its trailing slash), with their segments.
PageTable ==
    { [path |-> <<"/", "v", "l", "e", "s", "s", "/", "a", "b", "c">>,
       segments |-> <<<<"v", "l", "e", "s", "s">>, <<"a", "b", "c">>>>],
      [path |-> <<"/", "v", "l", "e", "s", "s", "/", "b", "-", "2", "/">>,
       segments |-> <<<<"v", "l", "e", "s", "s">>, <<"b", "-", "2">>>>],
      [path |-> <<"/", "v", "l", "e", "s", "s", "/">>,
       segments |-> <<<<"v", "l", "e", "s", "s">>>>],
      [path |-> <<"/", "v", "l", "e", "s", "s", "/", "a", "b", "c", "/", "x">>,
       segments |-> <<<<"v", "l", "e", "s", "s">>, <<"a", "b", "c">>, <<"x">>>>],
      [path |-> <<"/", "s", "b", "/", "a", "b", "c">>,
       segments |-> <<<<"s", "b">>, <<"a", "b", "c">>>>],
      [path |-> <<"/", "n", "o", "/", "a", "b", "c">>,
       segments |-> <<<<"n", "o">>, <<"a", "b", "c">>>>],
      [path |-> <<"/", "a", "b", "c">>,
       segments |-> <<<<"a", "b", "c">>>>] }
DownloadTable ==
    { [path |-> <<"/", "c", "o", "n", "f", "i", "g", "/", "v", "l", "e", "s", "s", "/", "a", "b", "c", ".", "j", "s", "o", "n">>,
       segments |-> <<<<"c", "o", "n", "f", "i", "g">>, <<"v", "l", "e", "s", "s">>, <<"a", "b", "c", ".", "j", "s", "o", "n">>>>],
      [path |-> <<"/", "c", "o", "n", "f", "i", "g", "/", "v", "l", "e", "s", "s", "/", "b", "-", "2", ".", "j", "s", "o", "n", ".", "j", "s", "o", "n">>,
       segments |-> <<<<"c", "o", "n", "f", "i", "g">>, <<"v", "l", "e", "s", "s">>, <<"b", "-", "2", ".", "j", "s", "o", "n", ".", "j", "s", "o", "n">>>>],
      [path |-> <<"/", "c", "o", "n", "f", "i", "g", "/", "v", "l", "e", "s", "s", "/", ".", "j", "s", "o", "n">>,
       segments |-> <<<<"c", "o", "n", "f", "i", "g">>, <<"v", "l", "e", "s", "s">>, <<".", "j", "s", "o", "n">>>>],
      [path |-> <<"/", "c", "o", "n", "f", "i", "g", "/", "v", "l", "e", "s", "s", "/", "a", "b", "c">>,
       segments |-> <<<<"c", "o", "n", "f", "i", "g">>, <<"v", "l", "e", "s", "s">>, <<"a", "b", "c">>>>],
      [path |-> <<"/", "c", "o", "n", "f", "i", "g", "/", "v", "l", "e", "s", "s", "/", "a", "b", "c", ".", "j", "s", "o", "n", "/">>,
       segments |-> <<<<"c", "o", "n", "f", "i", "g">>, <<"v", "l", "e", "s", "s">>, <<"a", "b", "c", ".", "j", "s", "o", "n">>>>],
      [path |-> <<"/", "c", "o", "n", "f", "i", "g", "/", "v", "l", "e", "s", "s", "/">>,
       segments |-> <<<<"c", "o", "n", "f", "i", "g">>, <<"v", "l", "e", "s", "s">>>>],
      [path |-> <<"/", "c", "o", "n", "f", "i", "g", "/", "s", "b", "/", "a", "b", "c", ".", "j", "s", "o", "n">>,
       segments |-> <<<<"c", "o", "n", "f", "i", "g">>, <<"s", "b">>, <<"a", "b", "c", ".", "j", "s", "o", "n">>>>],
      [path |-> <<"/", "c", "o", "n", "f", "i", "g", "/", "n", "o", "/", "a", "b", "c", ".", "j", "s", "o", "n">>,
       segments |-> <<<<"c", "o", "n", "f", "i", "g">>, <<"n", "o">>, <<"a", "b", "c", ".", "j", "s", "o", "n">>>>],
      [path |-> <<"/", "c", "o", "n", "f", "i", "g", "/", "v", "l", "e", "s", "s", "/", "x", "/", "a", "b", "c", ".", "j", "s", "o", "n">>,
       segments |-> <<<<"c", "o", "n", "f", "i", "g">>, <<"v", "l", "e", "s", "s">>, <<"x">>, <<"a", "b", "c", ".", "j", "s", "o", "n">>>>] }
PagePaths == {e.path : e \in PageTable}
DownloadPaths == {e.path : e \in DownloadTable}

QueryLong == [k \in {"server"} |-> One(<<"e", "d", "g", "e", "-", "n", "o", "d", "e", "-", "1", "7", ".", "l", "o", "n", "g", "-", "s", "u", "b", "d", "o", "m", "a", "i", "n", ".", "e", "x", "a", "m", "p", "l", "e", ".", "o", "r", "g">>)]
QueryLang ==
    [k \in {"lang", "tun-mtu"} |->
        IF k = "lang" THEN One(<<"r", "u">>) ELSE One(<<"1", "4", "x">>)]

\* Raw query strings with what r.URL.Query() yields for them.
QueryTable ==
    { [raw |-> <<>>, query |-> QueryEmpty],
      [raw |-> <<"s", "e", "r", "v", "e", "r", "=", "e", "x", ".", "c", "o", "m", "&", "p", "o", "r", "t", "=", "8", "0", "&", "w", "s", "-", "p", "a", "t", "h", "=", "/", "w", "s">>,
       query |-> QueryExample],
      [raw |-> <<"s", "e", "r", "v", "e", "r", "=", "e", "d", "g", "e", "-", "n", "o", "d", "e", "-", "1", "7", ".", "l", "o", "n", "g", "-", "s", "u", "b", "d", "o", "m", "a", "i", "n", ".", "e", "x", "a", "m", "p", "l", "e", ".", "o", "r", "g">>,
       query |-> QueryLong],
      [raw |-> <<"l", "a", "n", "g", "=", "r", "u", "&", "t", "u", "n", "-", "m", "t", "u", "=", "1", "4", "x">>,
       query |-> QueryLang] }
URLQuery(rawQuery) == (CHOOSE e \in QueryTable : e.raw = rawQuery).query

\* The form of a POST: how it was encoded and the value of its field url.
NoForm == [enc |-> "none", url |-> Absent]
QRCapacity == 120
FormUrls ==
    { Absent, StrV(<<>>), StrV(<<"h", "t", "t", "p", ":", "/", "/", "e", "v", "i", "l">>), StrV(VlessPrefix),
      StrV(<<"V", "L", "E", "S", "S", ":", "/", "/", "a", "b", "c", "@", "e", "x", ".", "c", "o", "m", ":", "4", "4", "3">>),
      StrV(<<"v", "l", "e", "s", "s", ":", "/", "/", "a", "b", "c", "@", "e", "x", ".", "c", "o", "m", ":", "4", "4", "3", "?", "t", "y", "p", "e", "=", "w", "s">>),
      StrV(VlessPrefix \o [i \in 1..QRCapacity |-> "a"]) }
Forms == {[enc |-> e, url |-> u] : e \in {"multipart", "urlencoded"}, u \in FormUrls}

Methods == {"GET", "POST", "PUT", "HEAD"}

HttpRequests ==
    {[method |-> m, path |-> p, rawQuery |-> e.raw, form |-> NoForm] :
        m \in Methods, p \in PagePaths \cup DownloadPaths, e \in QueryTable}
    \cup {[method |-> m, path |-> PathQRCode, rawQuery |-> <<>>, form |-> f] :
            m \in Methods \ {"HEAD"}, f \in Forms}
    \cup {[method |-> m, path |-> p, rawQuery |-> <<>>, form |-> NoForm] :
            m \in Methods, p \in {PathRoot, PathHealth, PathQRCode}}

-----------------------------------------------------------------------------
(* The HTTP server: main, the route table and the handlers.  The server     *)
(* handles one exchange after the other; what a handler allocated is        *)
(* dropped when its exchange is closed.                                     *)

MaxHandled == 3
Conn == 1

NoResponse == <<"none", 0>>
Response(status, contentType, body) ==
    [status |-> status, contentType |-> contentType, disposition |-> <<>>,
     cacheControl |-> "", body |-> body]
\* http.Error and http.NotFound
HttpError(status, message) == Response(status, "text/plain", <<"text", message>>)
NotFound == HttpError(404, "404 page not found")

NoExchange ==
    [pc |-> "none", handler |-> "", request |-> NilV, trace |-> <<>>,
     configType |-> <<>>, uuid |-> <<>>, language |-> "",
     dynamicCfg |-> DefaultDynamicConfig, template |-> NilV, vlessURL |-> <<>>,
     qr |-> NilV, data |-> NilV, html |-> NilV, resp |-> NoResponse,
     late |-> <<>>]

X == http.x
Step(name) == Append(X.trace, name)
\* The exchange ends with this response.
Answer(name, resp) == [X EXCEPT !.pc = "done", !.trace = Step(name), !.resp = resp]

\* The files main needs besides the configuration templates are there and
\* well-formed or not, and the HTML templates execute on their data or not.
Environments ==
    [translations : BOOLEAN, html : BOOLEAN, render : BOOLEAN]

\* The deployments, and one in which "vless" is not among the types.
ServerDeployments ==
    Deployments
        \cup {[types |-> <<TypeOther>>, files |-> (TypeOther :> FileOf(DocExpected))]}

\* What an observer of the server has noted: first, the request and the
\* answer of one exchange of the config page or the config download, and
\* between, whether an answer with another query was given since.
NoHistory == [first |-> <<>>, between |-> FALSE]

\* make(chan os.Signal, 1)
SignalCapacity == 1

\* The process and its signals: notify after signal.Notify, c the channel,
\* pc the place of the goroutine of setupGracefulShutdown ("none" before
\* it is started, "new" before it ran, "blocked" in the receive on the
\* empty channel, "got" with a signal, "exited" after os.Exit(0)), sent
\* whether the process received a signal, early whether one of them came
\* before the goroutine ran, killed whether a signal ended the process by
\* its default action, exit the status given to os.Exit(0) or -1.
NoSignals ==
    [notify |-> FALSE, c |-> <<>>, pc |-> "none", sent |-> FALSE, early |-> FALSE,
     killed |-> FALSE, exit |-> -1]

InitServer ==
    /\ phase = "translations"
    /\ \E d \in ServerDeployments : types = d.types /\ files = d.files
    /\ loadIdx = 1
    /\ heap = EmptyHeap
    /\ templates = [t \in {} |-> NilV]
    /\ loaded = [t \in {} |-> NilV]
    /\ req = [r \in Rids |-> Idle]
    /\ returned = {}
    /\ calls = 0
    /\ muts = {}
    /\ lastGet = NoGet
    /\ given = NilV
    /\ \E e \in Environments :
          http = [env |-> e, loads |-> <<>>, handled |-> 0, x |-> NoExchange,
                  sig |-> NoSignals, hist |-> NoHistory]
    /\ loadErr = NilV

MainFrame == UNCHANGED <<files, types, loadIdx, heap, templates, loaded, req,
                         returned, calls, muts, lastGet, given, loadErr>>

\* i18nManager.LoadTranslations("internal/i18n"), fatal on an error
LoadTranslations ==
    /\ phase = "translations"
    /\ http' = [http EXCEPT !.loads = Append(@, "translations")]
    /\ phase' = IF http.env.translations THEN "html" ELSE "exited"
    /\ MainFrame

\* The error of the load of the HTML templates not looked at.
LoadHTMLTemplates_ignoresError ==
    /\ phase = "html"
    /\ http' = [http EXCEPT !.loads = Append(@, "html")]
    /\ phase' = "templates"
    /\ MainFrame

\* templateRenderer.LoadTemplates("web/templates"), fatal on an error
LoadHTMLTemplates ==
    /\ phase = "html"
    /\ http' = [http EXCEPT !.loads = Append(@, "html")]
    /\ phase' = IF http.env.html THEN "templates" ELSE "exited"
    /\ MainFrame

\* templateManager.LoadTemplates(...) is called: its loop is loadTemplate,
\* and StartServing when it returned nil.
CallLoadTemplates ==
    /\ phase = "templates"
    /\ http' = [http EXCEPT !.loads = Append(@, "templates")]
    /\ phase' = "loading"
    /\ MainFrame

\* setupGracefulShutdown(logger): the channel is registered for
\* os.Interrupt and SIGTERM and the goroutine is started; it has not run.
setupGracefulShutdown ==
    /\ phase = "loading"
    /\ loadIdx > Len(types)
    /\ ~http.sig.notify
    /\ http' = [http EXCEPT !.sig.notify = TRUE, !.sig.pc = "new"]
    /\ UNCHANGED phase
    /\ MainFrame

\* http.ListenAndServe(serverAddr, nil) listens, after setupGracefulShutdown.
ListenAndServe ==
    /\ http.sig.notify
    /\ StartServing

\* http.ListenAndServe returns an error (the port cannot be bound): fatal.
ListenFails ==
    /\ phase = "loading"
    /\ loadIdx > Len(types)
    /\ http.sig.notify
    /\ phase' = "exited"
    /\ UNCHANGED http
    /\ MainFrame

\* The handler the mux selects for a path: the longest pattern matching.
Route(path) ==
    IF path = PathQRCode THEN "qrcode"
    ELSE IF path = PathHealth THEN "health"
    ELSE IF HasPrefix(path, PatternPage) THEN "page"
    ELSE IF HasPrefix(path, PatternDownload) THEN "download"
    ELSE IF HasPrefix(path, PatternStatic) THEN "static"
    ELSE "home"

HandlerFrame == UNCHANGED <<phase, files, types, loadIdx, templates, loaded, req,
                            returned, calls, muts, lastGet, given, loadErr>>

\* The listening server accepts a request and the mux selects its handler.
Receive ==
    /\ phase = "serving"
    /\ X.pc = "none"
    /\ http.handled < MaxHandled
    /\ \E request \in HttpRequests :
          http' = [http EXCEPT !.x = [NoExchange EXCEPT !.pc = "start",
                                                        !.handler = Route(request.path),
                                                        !.request = request]]
    /\ UNCHANGED heap
    /\ HandlerFrame

\* What a handler does when the write of its success body returned an
\* error: ConfigDownloadHandler and HealthHandler call http.Error, the
\* home page, the config page and the QR handler log the error.
LateError(handler) ==
    IF handler = "download"
    THEN <<HttpError(500, "Failed to encode configuration")>>
    ELSE IF handler = "health" THEN <<HttpError(500, "Internal server error")>>
    ELSE <<>>

\* The write of a success body returns an error: the connection was lost
\* while the body was sent, the status and the headers having been written
\* with the first byte, and the client has a part of the body at most.
\* Nothing a handler does after that reaches the client; the call of
\* http.Error a handler then makes is kept in late.
WriteFails ==
    /\ X.pc = "done"
    /\ X.resp.status = 200
    /\ http' = [http EXCEPT !.x.pc = "failed",
                            !.x.resp.body = <<"partial", @>>,
                            !.x.late = LateError(X.handler)]
    /\ UNCHANGED heap
    /\ HandlerFrame

\* The exchange answers a config request whose query is not the noted one.
OtherQuery ==
    /\ http.hist.first # <<>>
    /\ X.handler \in {"page", "download"}
    /\ X.resp.status = 200
    /\ X.request.rawQuery # http.hist.first[1].request.rawQuery

\* The response is sent and nothing of the exchange is kept.
Close ==
    /\ X.pc \in {"done", "failed"}
    /\ http' = [http EXCEPT !.handled = @ + 1, !.x = NoExchange,
                            !.hist.between = @ \/ OtherQuery]
    /\ heap' = [heap EXCEPT ![Conn] = <<>>]
    /\ HandlerFrame

-----------------------------------------------------------------------------
(* What the handlers call outside this repository *)

\* qrcode.Encode(content, qrcode.Medium, 256): the PNG of the content, an
\* error when there is nothing to encode or more than a code can hold.
QREncode(content) ==
    IF content = <<>> \/ Len(content) > QRCapacity
    THEN [png |-> <<>>, err |-> TRUE]
    ELSE [png |-> <<"png", content>>, err |-> FALSE]

\* utils.EncodeBase64
EncodeBase64(data) == <<"base64", data>>

LangEn == <<"e", "n">>
LangRu == <<"r", "u">>
\* i18n.DetectLanguage
DetectLanguage(langParam) ==
    IF langParam # <<>> /\ langParam \in {LangEn, LangRu} THEN langParam ELSE LangEn

\* RenderHomePage, RenderConfigPage: the template executed on the data
Render(env, name, data) ==
    IF env.render THEN [html |-> <<"html", name, data>>, err |-> FALSE]
    ELSE [html |-> <<>>, err |-> TRUE]

\* r.ParseMultipartForm: the values of the field url, and an error for a
\* body that is not multipart/form-data (http.ErrNotMultipart).
ParseMultipartForm(form) ==
    [err |-> form.enc # "multipart",
     values |-> IF form.url[1] = "string" THEN <<form.url[2]>> ELSE <<>>]
\* r.FormValue, r.PostFormValue: the first value, "" when there is none
FormValue(values) == IF values = <<>> THEN <<>> ELSE values[1]

\* The orders in which ranging over the keys of a map may yield them.
Orders(S) ==
    {f \in [1..Cardinality(S) -> S] :
        \A i, j \in 1..Cardinality(S) : i # j => f[i] # f[j]}

-----------------------------------------------------------------------------
(* The handlers that are one step *)

\* Handler.HomePageHandler
HomePageHandler(env, request) ==
    IF request.path # PathRoot THEN [trace |-> <<"path">>, resp |-> NotFound]
    ELSE LET language == DetectLanguage(QueryGet(URLQuery(request.rawQuery), "lang"))
             page == Render(env, "home", [Language |-> language,
                                          DefaultConfig |-> DefaultDynamicConfig])
         IN  IF page.err
             THEN [trace |-> <<"path", "render">>,
                   resp |-> HttpError(500, "Internal server error")]
             ELSE [trace |-> <<"path", "render", "write">>,
                   resp |-> Response(200, "text/html", page.html)]

\* The ".json" suffix is not required of the last segment.
DownloadPathOK_anySuffix(parts) ==
    /\ Len(parts) = 3
    /\ parts[1] = SegConfig
    /\ parts[2] # <<>>

\* ConfigDownloadHandler: the test of the path
DownloadPathOK(parts) ==
    /\ Len(parts) = 3
    /\ parts[1] = SegConfig
    /\ parts[2] # <<>>
    /\ HasSuffix(parts[3], DotJson)

\* The file name of the attachment without the type.
Disposition_fixedName(configType) ==
    <<"a", "t", "t", "a", "c", "h", "m", "e", "n", "t", ";", " ", "f", "i", "l", "e", "n", "a", "m", "e", "=">> \o <<"-", "c", "o", "n", "f", "i", "g", ".", "j", "s", "o", "n">>

Disposition(configType) ==
    <<"a", "t", "t", "a", "c", "h", "m", "e", "n", "t", ";", " ", "f", "i", "l", "e", "n", "a", "m", "e", "=">> \o configType \o <<"-", "c", "o", "n", "f", "i", "g", ".", "j", "s", "o", "n">>

\* Handler.ConfigDownloadHandler
ConfigDownloadHandler(h, tmpls, request) ==
    LET parts == Split(Trim(request.path, Slash), Slash) IN
    IF ~DownloadPathOK(parts)
    THEN [h |-> h, trace |-> <<"path">>, resp |-> NotFound]
    ELSE
    LET configType == parts[2]
        uuid == TrimSuffix(parts[3], DotJson)
        dynamicCfg == ParseDynamicConfig(URLQuery(request.rawQuery))
        g == GenerateConfig(h, tmpls, configType, uuid, dynamicCfg, Conn)
    IN  IF g.err
        THEN [h |-> h, trace |-> <<"path", "parse", "generate">>, resp |-> NotFound]
        ELSE [h |-> g.h, trace |-> <<"path", "parse", "generate", "write">>,
              resp |-> [Response(200, "application/json", <<"json", Read(g.h, g.r)>>)
                            EXCEPT !.disposition = Disposition(configType)]]

\* The PNG sent without the test of the prefix.
QRCodeHandler_anyUrl(request) ==
    LET form == ParseMultipartForm(request.form)
        q == QREncode(FormValue(form.values))
    IN  IF request.method # "POST" \/ form.err \/ q.err
        THEN [trace |-> <<"method">>, resp |-> HttpError(400, "Invalid form data")]
        ELSE [trace |-> <<"method", "form", "url", "qr", "write">>,
              resp |-> [Response(200, "image/png", q.png)
                            EXCEPT !.cacheControl = "no-cache, no-store, must-revalidate"]]

\* The form parsed before the method is tested.
QRCodeHandler_formFirst(request) ==
    LET form == ParseMultipartForm(request.form) IN
    IF form.err
    THEN [trace |-> <<"form">>, resp |-> HttpError(400, "Invalid form data")]
    ELSE IF request.method # "POST"
    THEN [trace |-> <<"form", "method">>, resp |-> HttpError(405, "Method not allowed")]
    ELSE
    LET vlessURL == FormValue(form.values)
        q == QREncode(vlessURL)
    IN  IF ~HasPrefix(vlessURL, VlessPrefix) \/ q.err
        THEN [trace |-> <<"form", "method", "url">>,
              resp |-> HttpError(400, "Invalid VLESS URL")]
        ELSE [trace |-> <<"form", "method", "url", "qr", "write">>,
              resp |-> [Response(200, "image/png", q.png)
                            EXCEPT !.cacheControl = "no-cache, no-store, must-revalidate"]]

\* Handler.QRCodeHandler
QRCodeHandler(request) ==
    IF request.method # "POST"
    THEN [trace |-> <<"method">>, resp |-> HttpError(405, "Method not allowed")]
    ELSE
    LET form == ParseMultipartForm(request.form) IN
    IF form.err
    THEN [trace |-> <<"method", "form">>, resp |-> HttpError(400, "Invalid form data")]
    ELSE
    LET method1 == FormValue(form.values)
        method2 == IF method1 = <<>> THEN FormValue(form.values) ELSE method1
        vlessURL == IF method2 = <<>> /\ Len(form.values) > 0 THEN form.values[1]
                    ELSE method2
    IN
    IF vlessURL = <<>>
    THEN [trace |-> <<"method", "form", "url">>,
          resp |-> HttpError(400, "URL parameter is required")]
    ELSE IF ~HasPrefix(vlessURL, VlessPrefix)
    THEN [trace |-> <<"method", "form", "url">>,
          resp |-> HttpError(400, "Invalid VLESS URL")]
    ELSE
    LET q == QREncode(vlessURL) IN
    IF q.err
    THEN [trace |-> <<"method", "form", "url", "qr">>,
          resp |-> HttpError(500, "Failed to generate QR code")]
    ELSE [trace |-> <<"method", "form", "url", "qr", "write">>,
          resp |-> [Response(200, "image/png", q.png)
                        EXCEPT !.cacheControl = "no-cache, no-store, must-revalidate"]]

\* Only the first of the types reported.
HealthHandler_firstOnly(templateTypes) ==
    Response(200, "application/json",
             [status |-> "healthy", service |-> "vless-generator",
              version |-> "1.0.0", templates |-> SubSeq(templateTypes, 1, 1)])

\* Handler.HealthHandler, given what GetTemplateTypes returned
HealthHandler(templateTypes) ==
    Response(200, "application/json",
             [status |-> "healthy", service |-> "vless-generator",
              version |-> "1.0.0", templates |-> templateTypes])

HomePage ==
    /\ X.pc = "start" /\ X.handler = "home"
    /\ LET out == HomePageHandler(http.env, X.request) IN
       http' = [http EXCEPT !.x.pc = "done", !.x.trace = out.trace, !.x.resp = out.resp]
    /\ UNCHANGED heap
    /\ HandlerFrame

ConfigDownload ==
    /\ X.pc = "start" /\ X.handler = "download"
    /\ LET out == ConfigDownloadHandler(heap, templates, X.request) IN
       /\ http' = [http EXCEPT !.x.pc = "done", !.x.trace = out.trace,
                               !.x.resp = out.resp]
       /\ heap' = out.h
    /\ HandlerFrame

QRCode ==
    /\ X.pc = "start" /\ X.handler = "qrcode"
    /\ LET out == QRCodeHandler(X.request) IN
       http' = [http EXCEPT !.x.pc = "done", !.x.trace = out.trace, !.x.resp = out.resp]
    /\ UNCHANGED heap
    /\ HandlerFrame

\* GetTemplateTypes ranges over the map of templates, in any order.
Health ==
    /\ X.pc = "start" /\ X.handler = "health"
    /\ \E templateTypes \in Orders(DOMAIN templates) :
          http' = [http EXCEPT !.x.pc = "done", !.x.trace = <<"types", "write">>,
                               !.x.resp = HealthHandler(templateTypes)]
    /\ UNCHANGED heap
    /\ HandlerFrame

-----------------------------------------------------------------------------
(* Handler.ConfigPageHandler, step by step *)

InPage(pc) == X.handler = "page" /\ X.pc = pc

\* The test of the path accepting more than two segments.
PagePathOK_atLeastTwo(parts) ==
    /\ Len(parts) >= 2
    /\ parts[1] # <<>>
    /\ parts[2] # <<>>

PagePathOK(parts) ==
    /\ Len(parts) = 2
    /\ parts[1] # <<>>
    /\ parts[2] # <<>>

\* parts := strings.Split(strings.Trim(r.URL.Path, "/"), "/") and its test
PageCheckPath ==
    /\ InPage("start")
    /\ LET parts == Split(Trim(X.request.path, Slash), Slash) IN
       http' = [http EXCEPT !.x =
                   IF ~PagePathOK(parts) THEN Answer("path", NotFound)
                   ELSE [X EXCEPT !.pc = "parse", !.trace = Step("path"),
                                  !.configType = parts[1], !.uuid = parts[2]]]
    /\ UNCHANGED heap
    /\ HandlerFrame

\* The page generated with the default parameters whatever the query.
PageParse_ignoresQuery ==
    /\ InPage("parse")
    /\ LET query == URLQuery(X.request.rawQuery) IN
       http' = [http EXCEPT !.x = [X EXCEPT
                   !.pc = "generate", !.trace = Step("parse"),
                   !.language = DetectLanguage(QueryGet(query, "lang")),
                   !.dynamicCfg = DefaultDynamicConfig]]
    /\ UNCHANGED heap
    /\ HandlerFrame

\* language, dynamicCfg from r.URL.Query()
PageParse ==
    /\ InPage("parse")
    /\ LET query == URLQuery(X.request.rawQuery) IN
       http' = [http EXCEPT !.x = [X EXCEPT
                   !.pc = "generate", !.trace = Step("parse"),
                   !.language = DetectLanguage(QueryGet(query, "lang")),
                   !.dynamicCfg = ParseDynamicConfig(query)]]
    /\ UNCHANGED heap
    /\ HandlerFrame

\* template, err := h.templateManager.GenerateConfig(configType, uuid, dynamicCfg)
PageGenerate ==
    /\ InPage("generate")
    /\ LET g == GenerateConfig(heap, templates, X.configType, X.uuid,
                               X.dynamicCfg, Conn) IN
       /\ heap' = g.h
       /\ http' = [http EXCEPT !.x =
                      IF g.err THEN Answer("generate", NotFound)
                      ELSE [X EXCEPT !.pc = "url", !.trace = Step("generate"),
                                     !.template = g.r]]
    /\ HandlerFrame

\* The failure of the URL answered as a page that is not found.
PageURL_notFound ==
    /\ InPage("url")
    /\ LET u == GenerateVlessURL(heap, X.template, X.uuid) IN
       http' = [http EXCEPT !.x =
                   IF u.err THEN Answer("url", NotFound)
                   ELSE [X EXCEPT !.pc = "qr", !.trace = Step("url"),
                                  !.vlessURL = u.url]]
    /\ UNCHANGED heap
    /\ HandlerFrame

\* vlessURL, err := utils.GenerateVlessURL(template, uuid)
PageURL ==
    /\ InPage("url")
    /\ LET u == GenerateVlessURL(heap, X.template, X.uuid) IN
       http' = [http EXCEPT !.x =
                   IF u.err
                   THEN Answer("url", HttpError(500, "Failed to generate configuration URL"))
                   ELSE [X EXCEPT !.pc = "qr", !.trace = Step("url"),
                                  !.vlessURL = u.url]]
    /\ UNCHANGED heap
    /\ HandlerFrame

\* qr, err := qrcode.Encode(vlessURL, qrcode.Medium, 256)
PageQR ==
    /\ InPage("qr")
    /\ LET q == QREncode(X.vlessURL) IN
       http' = [http EXCEPT !.x =
                   IF q.err
                   THEN Answer("qr", HttpError(500, "Failed to generate QR code"))
                   ELSE [X EXCEPT !.pc = "render", !.trace = Step("qr"),
                                  !.qr = q.png]]
    /\ UNCHANGED heap
    /\ HandlerFrame

\* The data with the uuid of the URL's place taken from the query string.
ConfigPageData_rawUuid(x) ==
    [Language |-> x.language, UUID |-> x.request.rawQuery,
     QRCode |-> EncodeBase64(x.qr), VlessURL |-> x.vlessURL,
     QueryString |-> x.request.rawQuery]

\* templates.ConfigPageData as the handler fills it (the texts left out)
ConfigPageData(x) ==
    [Language |-> x.language, UUID |-> x.uuid,
     QRCode |-> EncodeBase64(x.qr), VlessURL |-> x.vlessURL,
     QueryString |-> x.request.rawQuery]

\* htmlContent, err := h.templateRenderer.RenderConfigPage(data)
PageRender ==
    /\ InPage("render")
    /\ LET data == ConfigPageData(X)
           page == Render(http.env, "config", data)
       IN  http' = [http EXCEPT !.x =
                       IF page.err
                       THEN [Answer("render", HttpError(500, "Internal server error"))
                                EXCEPT !.data = data]
                       ELSE [X EXCEPT !.pc = "write", !.trace = Step("render"),
                                      !.data = data, !.html = page.html]]
    /\ UNCHANGED heap
    /\ HandlerFrame

\* w.Header().Set("Content-Type", "text/html"); fmt.Fprint(w, htmlContent)
PageWrite ==
    /\ InPage("write")
    /\ http' = [http EXCEPT !.x = Answer("write", Response(200, "text/html", X.html))]
    /\ UNCHANGED heap
    /\ HandlerFrame

NextServer ==
    \/ LoadTranslations
    \/ LoadHTMLTemplates
    \/ CallLoadTemplates
    \/ loadTemplate
    \/ setupGracefulShutdown
    \/ ListenAndServe
    \/ ListenFails
    \/ Receive
    \/ HomePage
    \/ PageCheckPath
    \/ PageParse
    \/ PageGenerate
    \/ PageURL
    \/ PageQR
    \/ PageRender
    \/ PageWrite
    \/ ConfigDownload
    \/ QRCode
    \/ Health
    \/ WriteFails
    \/ Close

SpecServer == InitServer /\ [][NextServer]_vars

-----------------------------------------------------------------------------
(* The server and an observer of its answers *)

\* The observer notes the config or the connection URL a GET of the
\* config download or the config page is answered with.
Remember ==
    /\ X.pc = "done"
    /\ X.handler \in {"page", "download"}
    /\ X.request.method = "GET"
    /\ X.resp.status = 200
    /\ http.hist.first = <<>>
    /\ http' = [http EXCEPT !.hist.first =
                   <<[handler |-> X.handler, request |-> X.request,
                      resp |-> X.resp, vlessURL |-> X.vlessURL]>>]
    /\ UNCHANGED heap
    /\ HandlerFrame

\* The deployments with a "vless" template that loads, all files of main
\* there and well-formed.
InitHistory ==
    /\ InitServer
    /\ types \in {<<TypeVless>>, <<TypeVless, TypeOther>>}
    /\ files[TypeVless] = FileOf(DocExpected)
    /\ \A t \in DOMAIN files : files[t][1] = "file"
    /\ http.env.translations
    /\ http.env.html
    /\ http.env.render

NextHistory ==
    \/ NextServer
    \/ Remember

SpecHistory == InitHistory /\ [][NextHistory]_vars

-----------------------------------------------------------------------------
(* The server and the signals of the operating system *)

Signals == {"interrupt", "terminated"}

SigFrame == UNCHANGED <<files, types, loadIdx, heap, templates, loaded, req,
                        returned, calls, muts, lastGet, given, loadErr>>

\* A channel without a buffer: the send of the runtime, which never
\* blocks, succeeds only if the goroutine is in its receive.
Signal_unbuffered ==
    /\ phase # "exited"
    /\ \E s \in Signals :
          IF ~http.sig.notify
          THEN /\ phase' = "exited"
               /\ http' = [http EXCEPT !.sig.sent = TRUE, !.sig.killed = TRUE]
          ELSE /\ phase' = phase
               /\ http' = [http EXCEPT
                     !.sig.sent = TRUE,
                     !.sig.early = @ \/ http.sig.pc = "new",
                     !.sig.c = IF http.sig.pc = "blocked" THEN <<s>> ELSE @]
    /\ SigFrame

\* The process receives an interrupt or SIGTERM.  Before signal.Notify the
\* default action ends the process.  After it the runtime sends the signal
\* on the channel without blocking: the signal is dropped if the buffer of
\* the channel is full.
Signal ==
    /\ phase # "exited"
    /\ \E s \in Signals :
          IF ~http.sig.notify
          THEN /\ phase' = "exited"
               /\ http' = [http EXCEPT !.sig.sent = TRUE, !.sig.killed = TRUE]
          ELSE /\ phase' = phase
               /\ http' = [http EXCEPT
                     !.sig.sent = TRUE,
                     !.sig.early = @ \/ http.sig.pc = "new",
                     !.sig.c = IF Len(@) < SignalCapacity THEN Append(@, s) ELSE @]
    /\ SigFrame

\* The goroutine runs for the first time: sig := <-c takes a signal that
\* is in the channel, or blocks.
GoroutineRuns ==
    /\ phase # "exited"
    /\ http.sig.pc = "new"
    /\ http' = IF http.sig.c # <<>>
               THEN [http EXCEPT !.sig.pc = "got", !.sig.c = Tail(@)]
               ELSE [http EXCEPT !.sig.pc = "blocked"]
    /\ UNCHANGED phase
    /\ SigFrame

\* sig := <-c returns in the blocked goroutine.
GoroutineWakes ==
    /\ phase # "exited"
    /\ http.sig.pc = "blocked"
    /\ http.sig.c # <<>>
    /\ http' = [http EXCEPT !.sig.pc = "got", !.sig.c = Tail(@)]
    /\ UNCHANGED phase
    /\ SigFrame

\* os.Exit(0): the process ends, and with it the exchange it was in.
GoroutineExits ==
    /\ phase # "exited"
    /\ http.sig.pc = "got"
    /\ phase' = "exited"
    /\ http' = [http EXCEPT !.sig.pc = "exited", !.sig.exit = 0,
                            !.x.pc = IF @ = "none" THEN @ ELSE "killed"]
    /\ SigFrame

NextShutdown ==
    \/ NextServer
    \/ Signal
    \/ GoroutineRuns
    \/ GoroutineWakes
    \/ GoroutineExits

\* One deployment, whose files are all there and well-formed.
InitShutdown ==
    /\ InitServer
    /\ types = <<TypeVless>>
    /\ files = (TypeVless :> FileOf(DocExpected))
    /\ http.env.translations
    /\ http.env.html

\* The scheduler of Go runs a goroutine that can run.
SpecShutdown ==
    /\ InitShutdown
    /\ [][NextShutdown]_vars
    /\ WF_vars(GoroutineRuns)
    /\ WF_vars(GoroutineWakes)
    /\ WF_vars(GoroutineExits)

-----------------------------------------------------------------------------
(* Reading documents by path.  A step is <<"k", key>> or <<"i", index>>. *)

K(key) == <<"k", key>>
I(index) == <<"i", index>>

StepIn(doc, s) ==
    /\ doc[1] = (IF s[1] = "k" THEN "map" ELSE "slice")
    /\ s[2] \in DOMAIN doc[2]

RECURSIVE DocGet(_, _)
DocGet(doc, p) ==
    IF p = <<>> THEN doc
    ELSE IF StepIn(doc, Head(p)) THEN DocGet(doc[2][Head(p)[2]], Tail(p))
    ELSE Absent

\* The document without the key at the end of path p.
RECURSIVE DocErase(_, _)
DocErase(doc, p) ==
    IF ~StepIn(doc, Head(p)) THEN doc
    ELSE IF Len(p) = 1
    THEN <<doc[1], [k \in (DOMAIN doc[2]) \ {Head(p)[2]} |-> doc[2][k]]>>
    ELSE <<doc[1], [doc[2] EXCEPT ![Head(p)[2]] = DocErase(@, Tail(p))]>>

RECURSIVE DocEraseAll(_, _)
DocEraseAll(doc, ps) ==
    IF ps = <<>> THEN doc ELSE DocEraseAll(DocErase(doc, Head(ps)), Tail(ps))

Outbound0 == <<K("outbounds"), I(1)>>
PServer == Outbound0 \o <<K("server")>>
PServerPort == Outbound0 \o <<K("server_port")>>
PTransport == Outbound0 \o <<K("transport")>>
PPath == PTransport \o <<K("path")>>
PHeaders == PTransport \o <<K("headers")>>
PHost == PHeaders \o <<K("Host")>>
PTls == Outbound0 \o <<K("tls")>>
PServerName == PTls \o <<K("server_name")>>
PType == Outbound0 \o <<K("type")>>
PUuid == Outbound0 \o <<K("uuid")>>
PDns0 == <<K("dns"), K("servers"), I(1)>>
PDns1 == <<K("dns"), K("servers"), I(2)>>
PDnsAddr0 == PDns0 \o <<K("address")>>
PDnsAddr1 == PDns1 \o <<K("address")>>
PInbound0 == <<K("inbounds"), I(1)>>
PInbound1 == <<K("inbounds"), I(2)>>
PInet4 == PInbound0 \o <<K("inet4_address")>>
PMtu == PInbound0 \o <<K("mtu")>>
PListenPort == PInbound1 \o <<K("listen_port")>>

WrittenPaths ==
    <<PServer, PServerPort, PPath, PHost, PServerName, PUuid,
      PDnsAddr0, PDnsAddr1, PInet4, PMtu, PListenPort>>

\* The part of a document outside the paths the generator may write.
Outside(doc) == DocEraseAll(doc, WrittenPaths)

IsObj(doc, p) == DocGet(doc, p)[1] = "map"

\* The config a request for (type, uuid, query) gets when it is the only
\* request the process ever handles.
Alone(templateType, uuid, query) ==
    LET u == Unmarshal(EmptyHeap, loaded[templateType], Main)
        g == GenerateConfig(u.h, (templateType :> u.r), templateType, uuid,
                            ParseDynamicConfig(query), 1)
    IN  Read(g.h, g.r)

Done(r) == req[r].pc = "done"
Served(r) == req[r].pc = "done" /\ ~req[r].err
TemplateOf(r) == loaded[req[r].configType]

StoreIntact ==
    \A t \in DOMAIN templates : Read(heap, templates[t]) = loaded[t]

-----------------------------------------------------------------------------
(* Claims about concurrent request handling and GenerateConfig *)

\* C2: whatever the interleaving of the requests' steps, a request's config
\* is the one it gets when it runs alone (an unknown type fails as it does
\* alone), and the stored templates hold what was loaded at every step.
C2_Isolation ==
    /\ \A r \in Rids :
          Done(r) =>
             /\ req[r].err = (req[r].configType \notin DOMAIN loaded)
             /\ ~req[r].err =>
                   req[r].resp = Alone(req[r].configType, req[r].uuid, req[r].query)
    /\ StoreIntact

\* Two requests for the same type with different parameters and uuids
\* overlapped: request 2, which arrived after request 1, was answered while
\* request 1 held its copy and had not been answered.
C2_Witness ==
    /\ Served(2)
    /\ req[1].pc \in {"update", "uuid", "respond"}
    /\ req[1].configType = req[2].configType
    /\ req[1].dynamicCfg # req[2].dynamicCfg
    /\ req[1].uuid # req[2].uuid

\* C3: a generated config equals its template everywhere outside the eleven
\* written paths, so two configs of one template differ only there.
C3_Frame ==
    /\ \A r \in Rids : Served(r) => Outside(req[r].resp) = Outside(TemplateOf(r))
    /\ \A r1, r2 \in Rids :
          Served(r1) /\ Served(r2) /\ req[r1].configType = req[r2].configType
             => Outside(req[r1].resp) = Outside(req[r2].resp)

\* Two different configs were generated from the template that has a second
\* outbound, a third DNS server, DNS rules and a third inbound.
C3_Witness ==
    /\ Served(1) /\ Served(2)
    /\ TemplateOf(1) = DocExpected /\ TemplateOf(2) = DocExpected
    /\ req[1].resp # req[2].resp
    /\ req[1].resp # DocExpected

\* C4: on a template whose first outbound has transport.headers, the config
\* has server, server_port, transport.path and headers.Host (= server) from
\* the parameters; tls.server_name is the server when the template has the
\* key and stays absent when the template's tls object has none.
C4_OutboundFields ==
    \A r \in Rids :
       Served(r) /\ IsObj(TemplateOf(r), PHeaders) =>
          LET p == ParseDynamicConfig(req[r].query)
              c == req[r].resp
              t == TemplateOf(r)
          IN  /\ DocGet(c, PServer) = StrV(p.Server)
              /\ DocGet(c, PServerPort) = IntV(p.ServerPort)
              /\ DocGet(c, PPath) = StrV(p.WSPath)
              /\ DocGet(c, PHost) = StrV(p.Server)
              /\ IsObj(t, PTls) /\ DocGet(t, PServerName) # Absent
                    => DocGet(c, PServerName) = StrV(p.Server)
              /\ IsObj(t, PTls) /\ DocGet(t, PServerName) = Absent
                    => DocGet(c, PServerName) = Absent

\* One config from a template with tls.server_name and one from a template
\* whose tls object has none, both with a server given in the query.
C4_Witness ==
    \E r1, r2 \in Rids :
       /\ Served(r1) /\ Served(r2)
       /\ DocGet(TemplateOf(r1), PServerName) # Absent
       /\ IsObj(TemplateOf(r2), PTls) /\ DocGet(TemplateOf(r2), PServerName) = Absent
       /\ req[r1].dynamicCfg.Server = ReqServer
       /\ req[r2].dynamicCfg.DNSServer = ReqDNS

\* C5: on a template with two DNS server objects, a TUN inbound and a mixed
\* inbound, the config has both DNS addresses, the one-element
\* inet4_address list, the mtu and the listen_port from the parameters.
C5_NetworkFields ==
    \A r \in Rids :
       /\ Served(r)
       /\ IsObj(TemplateOf(r), PDns0) /\ IsObj(TemplateOf(r), PDns1)
       /\ IsObj(TemplateOf(r), PInbound0) /\ IsObj(TemplateOf(r), PInbound1)
       => LET p == ParseDynamicConfig(req[r].query)
              c == req[r].resp
          IN  /\ DocGet(c, PDnsAddr0) = StrV(p.DNSServer)
              /\ DocGet(c, PDnsAddr1) = StrV(p.DOHServer)
              /\ DocGet(c, PInet4) = StrsV(<<p.TunAddress>>)
              /\ DocGet(c, PMtu) = IntV(p.TunMTU)
              /\ DocGet(c, PListenPort) = IntV(p.MixedPort)

\* A config generated with DNS, TUN and mixed-port parameters from the query.
C5_Witness ==
    \E r \in Rids :
       /\ Served(r)
       /\ IsObj(TemplateOf(r), PDns1) /\ IsObj(TemplateOf(r), PInbound1)
       /\ req[r].query = QueryNetwork
       /\ DocGet(req[r].resp, PListenPort) = IntV(10)

\* C10: outbounds[0].uuid is the request's uuid, as given, exactly when
\* outbounds[0].type is "vless", and is as in the template otherwise; no
\* outbound after the first is changed.
C10_Uuid ==
    \A r \in Rids :
       Served(r) /\ IsObj(TemplateOf(r), Outbound0) =>
          LET c == req[r].resp
              t == TemplateOf(r)
          IN  /\ DocGet(t, PType) = StrV(TypeVless)
                    => DocGet(c, PUuid) = StrV(req[r].uuid)
              /\ DocGet(t, PType) # StrV(TypeVless)
                    => DocGet(c, PUuid) = DocGet(t, PUuid)
              /\ \A i \in DOMAIN DocGet(t, <<K("outbounds")>>)[2] :
                    i > 1 => DocGet(c, <<K("outbounds"), I(i)>>)
                                = DocGet(t, <<K("outbounds"), I(i)>>)

\* The empty uuid was written into a vless outbound whose template has a
\* second vless outbound, and a uuid was withheld from a first outbound of
\* another type that has a uuid of its own.
C10_Witness ==
    \E r1, r2 \in Rids :
       /\ Served(r1) /\ Served(r2)
       /\ TemplateOf(r1) = DocExpected /\ req[r1].uuid = <<>>
       /\ TemplateOf(r2) = DocOther /\ req[r2].uuid = UuidA

-----------------------------------------------------------------------------
(* Claims about the template store *)

\* C1: whatever the caller got from GetTemplate and GenerateConfig and
\* whatever it wrote into those values, at any depth, every stored template
\* is the document that was loaded, and GetTemplate returns that document.
C1_StoredTemplatesImmutable ==
    /\ StoreIntact
    /\ lastGet.exists => lastGet.doc = loaded[lastGet.type]

\* The caller wrote into a container three levels or more inside a value it
\* was returned, and called GetTemplate after its writes.
C1_Witness ==
    /\ lastGet.exists
    /\ lastGet.after = Cardinality(muts)
    /\ \E m \in muts : m[3] >= 3

-----------------------------------------------------------------------------
(* Claims about ParseDynamicConfig *)

RecognizedKeys ==
    {"server", "port", "ws-path", "dns-server", "doh-server", "tun-address",
     "mixed-port", "tun-mtu"}
StringKeys == {"server", "ws-path", "dns-server", "doh-server", "tun-address"}
IntegerKeys == {"port", "mixed-port", "tun-mtu"}

FieldOf(key) ==
    CASE key = "server" -> "Server"
      [] key = "port" -> "ServerPort"
      [] key = "ws-path" -> "WSPath"
      [] key = "dns-server" -> "DNSServer"
      [] key = "doh-server" -> "DOHServer"
      [] key = "tun-address" -> "TunAddress"
      [] key = "mixed-port" -> "MixedPort"
      [] key = "tun-mtu" -> "TunMTU"

\* The defaults as documented.
DocumentedDefaults ==
    [Server |-> <<"v", "l", "e", "s", "s", ".", "e", "x", "a", "m", "p", "l", "e", ".", "c", "o", "m">>,
     ServerPort |-> 443,
     WSPath |-> <<"/", "w", "e", "b", "s", "o", "c", "k", "e", "t">>,
     DNSServer |-> <<"8", ".", "8", ".", "8", ".", "8">>,
     DOHServer |-> <<"h", "t", "t", "p", "s", ":", "/", "/", "2", "2", "3", ".", "5", ".", "5", ".", "5", "/", "d", "n", "s", "-", "q", "u", "e", "r", "y">>,
     TunAddress |-> <<"1", "7", "2", ".", "1", "9", ".", "0", ".", "1", "/", "2", "8">>,
     MixedPort |-> 2080,
     TunMTU |-> 9000]

\* The value of a key in a query: its first value, "" when it has none.
ValueOf(query, key) == IF key \in DOMAIN query THEN query[key][1] ELSE Empty
Without(query, keys) == [k \in (DOMAIN query) \ keys |-> query[k]]

\* The texts among the values explored that are integers, with the integer.
IntegerTexts ==
    { <<Text80, 80>>, <<TextMinus1, 0 - 1>>, <<Text70000, 70000>>, <<TextPlus0, 0>> }
IsIntegerText(s) == \E c \in IntegerTexts : c[1] = s
IntegerOf(s) == (CHOOSE c \in IntegerTexts : c[1] = s)[2]

Parsed(r) == req[r].pc = "parsed"

\* C6: a recognized key that is absent or empty leaves the documented
\* default; a string key with a non-empty value sets its field to that
\* value; no key changes a field other than its own; an unrecognized key
\* changes nothing.
C6_DefaultsAndOverwrites ==
    \A r \in Rids :
       Parsed(r) =>
          LET q == req[r].query
              c == req[r].dynamicCfg
          IN  /\ \A k \in RecognizedKeys :
                    ValueOf(q, k) = Empty => c[FieldOf(k)] = DocumentedDefaults[FieldOf(k)]
              /\ \A k \in StringKeys :
                    ValueOf(q, k) # Empty => c[FieldOf(k)] = ValueOf(q, k)
              /\ \A k \in RecognizedKeys : \A j \in RecognizedKeys \ {k} :
                    c[FieldOf(j)] = ParseDynamicConfig(Without(q, {k}))[FieldOf(j)]
              /\ c = ParseDynamicConfig(Without(q, QueryKeys \ RecognizedKeys))

\* A query with a string key set and a key present with an empty value
\* was parsed.
C6_Witness ==
    /\ Parsed(1)
    /\ ValueOf(req[1].query, "ws-path") = TextA
    /\ "server" \in DOMAIN req[1].query
    /\ ValueOf(req[1].query, "server") = Empty
    /\ req[1].dynamicCfg.WSPath = TextA
    /\ req[1].dynamicCfg.Server = DocumentedDefaults.Server

\* C7: an integer key sets its field to the integer its value denotes, of
\* any size and sign, and leaves the default when the value denotes none; a
\* parse always yields a config, and a malformed value changes nothing.
C7_IntegerParameters ==
    \A r \in Rids :
       Parsed(r) =>
          LET q == req[r].query
              c == req[r].dynamicCfg
          IN  \A k \in IntegerKeys :
                 /\ IsIntegerText(ValueOf(q, k))
                       => c[FieldOf(k)] = IntegerOf(ValueOf(q, k))
                 /\ ~IsIntegerText(ValueOf(q, k))
                       => /\ c[FieldOf(k)] = DocumentedDefaults[FieldOf(k)]
                          /\ c = ParseDynamicConfig(Without(q, {k}))

\* A query with a malformed port and a mixed-port above 65535 was parsed.
C7_Witness ==
    /\ Parsed(1)
    /\ ValueOf(req[1].query, "port") = Text1x
    /\ ValueOf(req[1].query, "mixed-port") = Text70000
    /\ req[1].dynamicCfg.ServerPort = 443
    /\ req[1].dynamicCfg.MixedPort = 70000

-----------------------------------------------------------------------------
(* Claims about GenerateVlessURL *)

UrlBuilt(r) == req[r].pc = "urldone"

IsString(doc, p) == DocGet(doc, p)[1] = "string"
IsNumber(doc, p) == DocGet(doc, p)[1] \in {"int", "float64"}

\* The strings the URL is built from are where the builder looks for them.
UrlFieldsPresent(doc) ==
    /\ IsString(doc, PServer)
    /\ IsString(doc, PPath)
    /\ IsString(doc, PHost)

PortText(v) == (CHOOSE c \in PortCases : c.v = v).text

ExampleURL == <<"v", "l", "e", "s", "s", ":", "/", "/", "a", "b", "c", "@", "e", "x", ".", "c", "o", "m", ":", "4", "4", "3", "?", "t", "y", "p", "e", "=", "w", "s", "&", "p", "a", "t", "h", "=", "/", "w", "s", "&", "h", "o", "s", "t", "=", "e", "x", ".", "c", "o", "m", "&", "s", "e", "c", "u", "r", "i", "t", "y", "=", "t", "l", "s", "&", "f", "p", "=", "c", "h", "r", "o", "m", "e">>

\* C8: from a config with a string server, a numeric server_port, a string
\* path and a string Host the builder returns, without error and without
\* writing to the config, the URL made of the fixed texts and the uuid, the
\* server, the port in decimal, the path and the host as they are.
C8_UrlFormat ==
    \A r \in Rids :
       UrlBuilt(r) =>
          /\ Read(heap, req[r].template) = given
          /\ UrlFieldsPresent(given) /\ IsNumber(given, PServerPort) =>
                /\ ~req[r].url.err
                /\ req[r].url.url =
                      <<"v", "l", "e", "s", "s", ":", "/", "/">> \o req[r].uuid
                      \o <<"@">> \o DocGet(given, PServer)[2]
                      \o <<":">> \o PortText(DocGet(given, PServerPort))
                      \o <<"?", "t", "y", "p", "e", "=", "w", "s">>
                      \o <<"&", "p", "a", "t", "h", "=">> \o DocGet(given, PPath)[2]
                      \o <<"&", "h", "o", "s", "t", "=">> \o DocGet(given, PHost)[2]
                      \o <<"&", "s", "e", "c", "u", "r", "i", "t", "y", "=", "t", "l", "s">>
                      \o <<"&", "f", "p", "=", "c", "h", "r", "o", "m", "e">>

\* The URL of the documented example was built: server ex.com, port 443,
\* path /ws, host ex.com, uuid abc.
C8_Witness ==
    /\ UrlBuilt(1)
    /\ req[1].uuid = UuidA
    /\ DocGet(given, PServer) = StrV(ReqServer)
    /\ DocGet(given, PServerPort) = IntV(443)
    /\ DocGet(given, PPath) = StrV(ReqPath)
    /\ DocGet(given, PHost) = StrV(ReqServer)
    /\ req[1].url = [url |-> ExampleURL, err |-> FALSE]

\* C9: when outbounds is missing, no list or empty, outbounds[0] is no
\* object, or server, transport, path, headers or Host is missing or of the
\* wrong type, the builder returns an error and the empty URL.
C9_UrlErrors ==
    \A r \in Rids :
       UrlBuilt(r) /\ ~(/\ IsObj(given, Outbound0)
                        /\ IsObj(given, PTransport)
                        /\ IsObj(given, PHeaders)
                        /\ UrlFieldsPresent(given))
          => req[r].url = [url |-> Empty, err |-> TRUE]

\* The builder was given a config that lacks only a string Host: Host is
\* an object where server, port and path are as expected.
C9_Witness ==
    /\ UrlBuilt(1)
    /\ IsString(given, PServer) /\ IsString(given, PPath)
    /\ IsNumber(given, PServerPort)
    /\ DocGet(given, PHost) = MapV(EmptyMap)
    /\ req[1].url.err

-----------------------------------------------------------------------------
(* Claims about the failure of GenerateConfig *)

Parent(p) == SubSeq(p, 1, Len(p) - 1)

\* C11: GenerateConfig fails exactly when the type has no loaded template,
\* and then returns no config, allocates nothing and leaves the store as it
\* was; for a loaded template of any shape it returns a config in which a
\* field whose container the template lacks is absent, the place of the
\* container being as it is in the template.
C11_OnlyUnknownTypeFails ==
    \A r \in Rids :
       Done(r) =>
          /\ req[r].err = (req[r].configType \notin DOMAIN loaded)
          /\ req[r].err =>
                /\ req[r].template = NilV
                /\ req[r].resp = NilV
                /\ heap[r] = <<>>
                /\ StoreIntact
          /\ ~req[r].err =>
                /\ req[r].resp[1] = "map"
                /\ \A i \in DOMAIN WrittenPaths :
                      LET p == WrittenPaths[i] IN
                      ~IsObj(TemplateOf(r), Parent(p)) =>
                         /\ DocGet(req[r].resp, p) = Absent
                         /\ DocGet(req[r].resp, Parent(p)) = DocGet(TemplateOf(r), Parent(p))

\* A config was generated from the template whose outbounds are empty and
\* whose dns and inbounds are no objects, and a request for a type that is
\* not loaded failed.
C11_Witness ==
    /\ Served(1)
    /\ TemplateOf(1) = DocOdd
    /\ Done(2)
    /\ req[2].err

-----------------------------------------------------------------------------
(* Claims about the config page *)

Answered == X.pc = "done"
Status(code) == X.resp.status = code

SegmentsOf(table, path) == (CHOOSE e \in table : e.path = path).segments
IsPageRequest == Answered /\ X.request.path \in PagePaths
PageSegments == SegmentsOf(PageTable, X.request.path)

\* The request is GET /{type}/{uuid} for a loaded type and a uuid.
IsPageOf(templateType, uuid) ==
    /\ Answered
    /\ X.request.method = "GET"
    /\ templateType \in DOMAIN loaded
    /\ uuid # <<>>
    /\ X.request.path = <<Slash>> \o templateType \o <<Slash>> \o uuid

\* GenerateVlessURL(GenerateConfig(type, uuid, ParseDynamicConfig(query)), uuid)
\* computed on the template as it was loaded.
UrlAlone(templateType, uuid, query) ==
    LET u == Unmarshal(EmptyHeap, loaded[templateType], Main)
        g == GenerateConfig(u.h, (templateType :> u.r), templateType, uuid,
                            ParseDynamicConfig(query), 1)
    IN  GenerateVlessURL(g.h, g.r, uuid)

PageDataAsClaimed(templateType, uuid) ==
    LET url == UrlAlone(templateType, uuid, URLQuery(X.request.rawQuery)).url IN
    /\ Status(200)
    /\ X.resp.contentType = "text/html"
    /\ X.resp.body = <<"html", "config", X.data>>
    /\ X.data.VlessURL = url
    /\ X.data.QRCode = EncodeBase64(QREncode(url).png)
    /\ X.data.UUID = uuid
    /\ X.data.QueryString = X.request.rawQuery

C13_PageNotFound ==
    IsPageRequest /\ (Len(PageSegments) # 2 \/ PageSegments[1] \notin DOMAIN loaded)
       => /\ Status(404)
          /\ X.template = NilV
          /\ heap[Conn] = <<>>
          /\ X.qr = NilV
          /\ \A i \in DOMAIN X.trace : X.trace[i] \notin {"url", "qr", "render", "write"}

\* A path of three segments under /vless/ was answered 404.
C13_Witness ==
    /\ IsPageRequest
    /\ Len(PageSegments) = 3
    /\ PageSegments[1] = TypeVless
    /\ TypeVless \in DOMAIN loaded
    /\ Status(404)

-----------------------------------------------------------------------------
(* Claims about the config download *)

IsDownloadRequest == Answered /\ X.request.path \in DownloadPaths
DownloadSegments == SegmentsOf(DownloadTable, X.request.path)

\* The last segment without its last five characters, ".json".
WithoutJson(segment) == SubSeq(segment, 1, Len(segment) - Len(DotJson))
EndsWithJson(segment) ==
    /\ Len(segment) >= Len(DotJson)
    /\ \A i \in DOMAIN DotJson : segment[Len(segment) - Len(DotJson) + i] = DotJson[i]

\* C14 as stated: a download request is answered 404 unless its path is
\* /config/{type}/{uuid}.json with a loaded type and a non-empty uuid.
C14_Original ==
    IsDownloadRequest
       /\ ~(/\ Len(DownloadSegments) = 3
            /\ DownloadSegments[1] = SegConfig
            /\ DownloadSegments[2] \in DOMAIN loaded
            /\ EndsWithJson(DownloadSegments[3])
            /\ WithoutJson(DownloadSegments[3]) # <<>>)
       => Status(404)

\* C15: a download of /config/{type}/{uuid}.json for a loaded type is
\* answered 200 application/json with the attachment named after the type
\* of the path, and the body is the JSON of the config generated for the
\* type, the last segment without ".json" and the parameters of the query.
C15_Download ==
    IsDownloadRequest
       /\ Len(DownloadSegments) = 3
       /\ DownloadSegments[1] = SegConfig
       /\ DownloadSegments[2] \in DOMAIN loaded
       /\ EndsWithJson(DownloadSegments[3])
       => /\ Status(200)
          /\ X.resp.contentType = "application/json"
          /\ X.resp.disposition =
                <<"a", "t", "t", "a", "c", "h", "m", "e", "n", "t", ";", " ", "f", "i", "l", "e", "n", "a", "m", "e", "=">> \o DownloadSegments[2]
                   \o <<"-", "c", "o", "n", "f", "i", "g", ".", "j", "s", "o", "n">>
          /\ X.resp.body =
                <<"json", Alone(DownloadSegments[2], WithoutJson(DownloadSegments[3]),
                                URLQuery(X.request.rawQuery))>>

\* The config of the second type was downloaded with parameters in the
\* query.
C15_Witness ==
    /\ IsDownloadRequest
    /\ Status(200)
    /\ DownloadSegments[2] = TypeOther
    /\ X.request.rawQuery # <<>>
    /\ X.resp.body[1] = "json"
    /\ DocGet(X.resp.body[2], PServer) = StrV(ReqServer)

-----------------------------------------------------------------------------
(* Claims about the QR endpoint *)

IsQRPost ==
    /\ Answered
    /\ X.request.path = PathQRCode
    /\ X.request.method = "POST"
    /\ X.request.form.enc \in {"multipart", "urlencoded"}

\* The field url is there and begins with "vless://".
UrlFieldIsVless ==
    /\ X.request.form.url[1] = "string"
    /\ Len(X.request.form.url[2]) >= 8
    /\ SubSeq(X.request.form.url[2], 1, 8) = <<"v", "l", "e", "s", "s", ":", "/", "/">>

EncodeRan == \E i \in DOMAIN X.trace : X.trace[i] = "qr"

C17_Original ==
    IsQRPost /\ UrlFieldIsVless /\ ~QREncode(X.request.form.url[2]).err
       => /\ Status(200)
          /\ X.resp.contentType = "image/png"
          /\ X.resp.cacheControl = "no-cache, no-store, must-revalidate"
          /\ X.resp.body = <<"png", X.request.form.url[2]>>

-----------------------------------------------------------------------------
(* Claims about /health and the startup *)

Range(seq) == {seq[i] : i \in DOMAIN seq}

IsHealthRequest == Answered /\ X.request.path = PathHealth

\* C18: every /health request, whatever was handled before, is answered
\* healthy, vless-generator, 1.0.0 and a list of templates that as a set is
\* the set of the types configured, all of them loaded; the list is not
\* empty when a template is loaded and names only stored templates.
C18_Health ==
    IsHealthRequest =>
       /\ Status(200)
       /\ X.resp.body.status = "healthy"
       /\ X.resp.body.service = "vless-generator"
       /\ X.resp.body.version = "1.0.0"
       /\ Range(X.resp.body.templates) = Range(types)
       /\ Range(X.resp.body.templates) = DOMAIN loaded
       /\ DOMAIN loaded # {} => Len(X.resp.body.templates) > 0
       /\ \A i \in DOMAIN X.resp.body.templates :
             GetTemplate(heap, templates, X.resp.body.templates[i], Conn).exists

\* /health was answered after another request, with two types loaded and
\* listed in the other order than configured.
C18_Witness ==
    /\ IsHealthRequest
    /\ http.handled > 0
    /\ Len(X.resp.body.templates) = 2
    /\ X.resp.body.templates # types

LoadOrder == <<"translations", "html", "templates">>
IsPrefixOf(s, t) == Len(s) <= Len(t) /\ SubSeq(t, 1, Len(s)) = s

\* One of the files main loads is missing or malformed.
SomeLoadFails ==
    \/ ~http.env.translations
    \/ ~http.env.html
    \/ \E i \in DOMAIN types : files[types[i]][1] # "file"

\* C19: translations, HTML templates and configuration templates are loaded
\* once each and in this order; a request is received or answered only
\* while the server listens, which it does only after all three loads
\* succeeded; when a load fails the process exits and never listens, and
\* it exits without a failed load only where it was to listen.
C19_StartupOrder ==
    /\ IsPrefixOf(http.loads, LoadOrder)
    /\ X.pc # "none" \/ http.handled > 0 => phase = "serving"
    /\ phase = "serving" =>
          /\ http.loads = LoadOrder
          /\ DOMAIN loaded = Range(types)
          /\ ~SomeLoadFails
    /\ SomeLoadFails =>
          /\ phase # "serving"
          /\ X.pc = "none"
          /\ http.handled = 0
    /\ phase = "exited" /\ ~SomeLoadFails =>
          /\ http.loads = LoadOrder
          /\ loadIdx > Len(types)

\* The process exited on the load of the configuration templates, after the
\* two other loads.
C19_Witness ==
    /\ phase = "exited"
    /\ http.loads = LoadOrder
    /\ http.handled = 0

-----------------------------------------------------------------------------
(* Claims about the steps of the config page *)

PageSteps == <<"path", "parse", "generate", "url", "qr", "render", "write">>
LastStep == X.trace[Len(X.trace)]

\* C20: the config-page handler runs path check, parsing, generation, URL
\* construction, QR encoding, rendering and write in this order, each once;
\* the first step that fails is the last one run and decides the status:
\* 404 for a bad path and for an unknown type, 500 for the URL, the QR code
\* and the rendering, 200 when none fails.
C20_PageSteps ==
    X.handler = "page" =>
       /\ IsPrefixOf(X.trace, PageSteps)
       /\ X.pc \notin {"start", "done", "failed"} => X.pc = PageSteps[Len(X.trace) + 1]
       /\ Answered =>
             LET u == UrlAlone(PageSegments[1], PageSegments[2],
                               URLQuery(X.request.rawQuery))
             IN  /\ LastStep =
                       (IF Len(PageSegments) # 2 THEN "path"
                        ELSE IF PageSegments[1] \notin DOMAIN loaded THEN "generate"
                        ELSE IF u.err THEN "url"
                        ELSE IF QREncode(u.url).err THEN "qr"
                        ELSE IF ~http.env.render THEN "render"
                        ELSE "write")
                 /\ X.resp.status =
                       (IF LastStep \in {"path", "generate"} THEN 404
                        ELSE IF LastStep \in {"url", "qr", "render"} THEN 500
                        ELSE 200)

\* A page request was answered 500 at the QR encoding, the steps after it
\* not run.
C20_Witness ==
    /\ X.handler = "page"
    /\ Answered
    /\ X.trace = <<"path", "parse", "generate", "url", "qr">>
    /\ Status(500)
    /\ X.html = NilV

-----------------------------------------------------------------------------
(* Claims about the DNS writes *)

PDnsServers == <<K("dns"), K("servers")>>

\* The template's dns.servers is a list of exactly one entry, an object.
OneDnsServer(doc) ==
    /\ DocGet(doc, PDnsServers)[1] = "slice"
    /\ Len(DocGet(doc, PDnsServers)[2]) = 1
    /\ IsObj(doc, PDns0)

\* C23 as stated: from a template whose dns.servers list has exactly one
\* object entry, the generated config has dns.servers[0].address set to the
\* DNSServer parameter.
C23_Original ==
    \A r \in Rids :
       Served(r) /\ OneDnsServer(TemplateOf(r)) =>
          DocGet(req[r].resp, PDnsAddr0)
             = StrV(ParseDynamicConfig(req[r].query).DNSServer)

-----------------------------------------------------------------------------
(* updateTemplateWithDynamicConfig called on its own, twice on one document *)

UpdateDocs == {DocExpected, DocOther, DocNoType, DocOdd}
QueryDns == [k \in {"dns-server"} |-> One(ReqDNS)]
UpdateQueries ==
    {QueryEmpty, QueryExample, QueryNetwork, QueryLong, QueryLang, QueryDns}

InitUpdate ==
    /\ phase = "serving"
    /\ files = [t \in {} |-> NilV]
    /\ types = <<>>
    /\ loadIdx = 1
    /\ templates = [t \in {} |-> NilV]
    /\ loaded = [t \in {} |-> NilV]
    /\ \E doc \in UpdateDocs :
          LET u == Unmarshal(EmptyHeap, doc, Caller) IN
          /\ given = doc
          /\ heap = u.h
          /\ req = [r \in Rids |-> IF r = 1 THEN [Idle EXCEPT !.pc = "first",
                                                            !.template = u.r]
                                   ELSE Idle]
    /\ returned = {}
    /\ calls = 0
    /\ muts = {}
    /\ lastGet = NoGet
    /\ http = NoHTTP
    /\ loadErr = NilV

\* m.updateTemplateWithDynamicConfig(template, dynamicCfg), called a first
\* and a second time on the same map.  The request keeps the query of the
\* first call, the document after the first call and the parameters of the
\* latest call.
ApplyUpdate(r) ==
    /\ req[r].pc \in {"first", "second"}
    /\ \E q \in UpdateQueries :
          LET p == ParseDynamicConfig(q)
              h == updateTemplateWithDynamicConfig(heap, req[r].template, p)
          IN  /\ heap' = h
              /\ req' = IF req[r].pc = "first"
                        THEN [req EXCEPT ![r].pc = "second", ![r].query = q,
                                         ![r].dynamicCfg = p,
                                         ![r].resp = Read(h, req[r].template)]
                        ELSE [req EXCEPT ![r].pc = "updated", ![r].dynamicCfg = p]
    /\ ReqFrame

NextUpdate == \E r \in Rids : ApplyUpdate(r)

SpecUpdate == InitUpdate /\ [][NextUpdate]_vars

\* The document after one call with dynamicCfg on doc as it was given.
UpdatedOnce(doc, dynamicCfg) ==
    LET u == Unmarshal(EmptyHeap, doc, Main)
    IN  Read(updateTemplateWithDynamicConfig(u.h, u.r, dynamicCfg), u.r)

\* C25: after updateTemplateWithDynamicConfig was applied to a document with
\* parameters p1 and then p2, the document is the one p2 alone gives; with
\* p2 = p1 it is the document as it was after the first call.
C25_PureOverwrites ==
    \A r \in Rids :
       req[r].pc = "updated" =>
          /\ Read(heap, req[r].template) = UpdatedOnce(given, req[r].dynamicCfg)
          /\ ParseDynamicConfig(req[r].query) = req[r].dynamicCfg
                => Read(heap, req[r].template) = req[r].resp

\* The expected template was updated with the network parameters and then
\* with the parameters of the documented example, which changed it again.
C25_Witness ==
    /\ req[1].pc = "updated"
    /\ given = DocExpected
    /\ req[1].query = QueryNetwork
    /\ req[1].dynamicCfg = ParseDynamicConfig(QueryExample)
    /\ Read(heap, req[1].template) # req[1].resp
    /\ req[1].resp # DocExpected

-----------------------------------------------------------------------------
(* Claims about the port of the connection URL *)

\* The URL up to the "?" for a port written as text.
UrlUpToPort(uuid, doc, text) ==
    <<"v", "l", "e", "s", "s", ":", "/", "/">> \o uuid \o <<"@">>
        \o DocGet(doc, PServer)[2] \o <<":">> \o text \o <<"?">>

\* C27: with the strings of the URL in place, GenerateVlessURL returns no
\* error whatever server_port is; the port of the URL is 443 when
\* server_port is missing or is no number, the integer as it is when it is
\* an int, and the float cut to its integer part when it is a float64.
C27_PortFallback ==
    \A r \in Rids :
       UrlBuilt(r) /\ UrlFieldsPresent(given) =>
          /\ ~req[r].url.err
          /\ HasPrefix(req[r].url.url,
                       UrlUpToPort(req[r].uuid, given,
                                   IF IsNumber(given, PServerPort)
                                   THEN PortText(DocGet(given, PServerPort))
                                   ELSE <<"4", "4", "3">>))

\* The URL was built from a config whose server_port is the string "80":
\* its port is 443.
C27_Witness ==
    /\ UrlBuilt(1)
    /\ UrlFieldsPresent(given)
    /\ DocGet(given, PServerPort) = StrV(Text80)
    /\ req[1].uuid = UuidA
    /\ ~req[1].url.err
    /\ HasPrefix(req[1].url.url, <<"v", "l", "e", "s", "s", ":", "/", "/", "a", "b", "c", "@", "e", "x", ".", "c", "o", "m", ":", "4", "4", "3", "?">>)

-----------------------------------------------------------------------------
(* Claims about LoadTemplates *)

IsFile(i) == files[types[i]][1] = "file"
TypesBefore(i) == {types[j] : j \in 1..(i - 1)}

\* C29: the stored types are at every step the types before the one being
\* loaded, in the order of the list; LoadTemplates returns an error exactly
\* at the first type whose file cannot be read or parsed, the error names
\* that type, the types before it are stored and that type and the later
\* ones are not; when it returns nil the stored types are the types passed.
C29_LoadTemplates ==
    /\ DOMAIN templates = TypesBefore(loadIdx)
    /\ \A j \in 1..(loadIdx - 1) : IsFile(j)
    /\ loadErr # NilV =>
          /\ phase = "exited"
          /\ loadIdx \in DOMAIN types
          /\ ~IsFile(loadIdx)
          /\ loadErr[2] = types[loadIdx]
          /\ \A j \in loadIdx..Len(types) : types[j] \notin DOMAIN templates
    /\ loadIdx > Len(types) \/ phase = "serving" =>
          /\ loadErr = NilV
          /\ DOMAIN templates = Range(types)

\* LoadTemplates failed at the second of three types: the first is stored,
\* the second and the third, whose file is well-formed, are not.
C29_Witness ==
    /\ phase = "exited"
    /\ Len(types) = 3
    /\ loadErr = <<"error", types[2], "parse">>
    /\ IsFile(3)
    /\ DOMAIN templates = {types[1]}

-----------------------------------------------------------------------------
(* Claims about the HTTP method *)

AsGet(request) == [request EXCEPT !.method = "GET"]

\* The answer of the config page as a function of the path and the query.
PageStatusExpected ==
    LET u == UrlAlone(PageSegments[1], PageSegments[2], URLQuery(X.request.rawQuery))
    IN  IF Len(PageSegments) # 2 THEN 404
        ELSE IF PageSegments[1] \notin DOMAIN loaded THEN 404
        ELSE IF u.err \/ QREncode(u.url).err \/ ~http.env.render THEN 500
        ELSE 200

\* C28: a request to /qrcode whose method is not POST is answered 405 at
\* the test of the method, before the form is parsed and without a QR code
\* being encoded, whatever form it carries; the home page, the config page,
\* the config download and /health answer a request of any method as they
\* answer it sent with GET.
C28_Methods ==
    Answered =>
       /\ X.handler = "qrcode" /\ X.request.method # "POST" =>
             /\ X.resp = HttpError(405, "Method not allowed")
             /\ X.trace = <<"method">>
       /\ X.handler = "home" =>
             X.resp = HomePageHandler(http.env, AsGet(X.request)).resp
       /\ X.handler = "download" =>
             X.resp = ConfigDownloadHandler(heap, templates, AsGet(X.request)).resp
       /\ X.handler = "health" =>
             \E order \in Orders(DOMAIN loaded) : X.resp = HealthHandler(order)
       /\ X.handler = "page" =>
             /\ Status(PageStatusExpected)
             /\ Status(200) => PageDataAsClaimed(PageSegments[1], PageSegments[2])

\* A PUT to /qrcode carrying a multipart form with a well-formed url was
\* answered 405.
C28_Witness ==
    /\ Answered
    /\ X.request.path = PathQRCode
    /\ X.request.method = "PUT"
    /\ X.request.form.enc = "multipart"
    /\ UrlFieldIsVless
    /\ ~QREncode(X.request.form.url[2]).err
    /\ Status(405)

-----------------------------------------------------------------------------
(* Claims about the config page and the config download together *)

\* The download request for the type, the uuid and the query of the page
\* request in hand.
DownloadOfPage ==
    [method |-> "GET",
     path |-> <<"/", "c", "o", "n", "f", "i", "g", "/">> \o X.configType \o <<"/">>
                 \o X.uuid \o <<".", "j", "s", "o", "n">>,
     rawQuery |-> X.request.rawQuery, form |-> NoForm]

\* The ports the explored queries give, in decimal.
PagePortTexts == { <<IntV(443), <<"4", "4", "3">>>>, <<IntV(80), <<"8", "0">>>> }
PagePortText(v) == (CHOOSE c \in PagePortTexts : c[1] = v)[2]

\* C26: when the config page is served, the download for the same type,
\* uuid and query is served too, and the URL of the page is made of the
\* uuid and of outbounds[0].server, server_port, transport.path and
\* transport.headers.Host of the downloaded document; the host of the URL
\* is its server.
C26_PageAgreesWithDownload ==
    X.handler = "page" /\ Answered /\ Status(200) =>
       LET d == ConfigDownloadHandler(heap, templates, DownloadOfPage).resp
           doc == d.body[2]
       IN  /\ d.status = 200
           /\ d.body[1] = "json"
           /\ X.data.VlessURL =
                 <<"v", "l", "e", "s", "s", ":", "/", "/">> \o X.uuid
                 \o <<"@">> \o DocGet(doc, PServer)[2]
                 \o <<":">> \o PagePortText(DocGet(doc, PServerPort))
                 \o <<"?", "t", "y", "p", "e", "=", "w", "s", "&", "p", "a", "t", "h", "=">>
                 \o DocGet(doc, PPath)[2]
                 \o <<"&", "h", "o", "s", "t", "=">> \o DocGet(doc, PHost)[2]
                 \o <<"&", "s", "e", "c", "u", "r", "i", "t", "y", "=", "t", "l", "s", "&", "f", "p", "=", "c", "h", "r", "o", "m", "e">>
           /\ DocGet(doc, PHost) = DocGet(doc, PServer)

\* The page was served for a query that sets server, port and path, from a
\* template whose own server, port, path and Host are others.
C26_Witness ==
    /\ X.handler = "page" /\ Answered /\ Status(200)
    /\ URLQuery(X.request.rawQuery) = QueryExample
    /\ DocGet(loaded[X.configType], PHost) = StrV(TplHost)
    /\ X.data.VlessURL = <<"v", "l", "e", "s", "s", ":", "/", "/">> \o X.uuid \o <<"@", "e", "x", ".", "c", "o", "m", ":", "8", "0", "?", "t", "y", "p", "e", "=", "w", "s", "&", "p", "a", "t", "h", "=", "/", "w", "s", "&", "h", "o", "s", "t", "=", "e", "x", ".", "c", "o", "m", "&", "s", "e", "c", "u", "r", "i", "t", "y", "=", "t", "l", "s", "&", "f", "p", "=", "c", "h", "r", "o", "m", "e">>

-----------------------------------------------------------------------------
(* Claims about the completeness of the responses *)

GenericMessages ==
    {"404 page not found", "Internal server error", "Method not allowed",
     "Invalid form data", "URL parameter is required", "Invalid VLESS URL",
     "Failed to generate configuration URL", "Failed to generate QR code"}

\* An error status with a generic text, and nothing of a success response.
IsErrorResponse(resp) ==
    /\ resp.status \in {400, 404, 405, 500}
    /\ resp.contentType = "text/plain"
    /\ resp.disposition = <<>>
    /\ resp.cacheControl = ""
    /\ resp.body[1] = "text"
    /\ resp.body[2] \in GenericMessages

\* The whole success response of the handler.
IsSuccessResponse(handler, resp) ==
    /\ resp.status = 200
    /\ IF handler = "health"
       THEN resp.contentType = "application/json" /\ resp.body.status = "healthy"
       ELSE IF handler = "download"
       THEN /\ resp.contentType = "application/json"
            /\ resp.body[1] = "json"
            /\ resp.disposition # <<>>
       ELSE IF handler = "qrcode"
       THEN resp.contentType = "image/png" /\ resp.body[1] = "png"
       ELSE resp.contentType = "text/html" /\ resp.body[1] = "html"

\* C21 as stated: a response is a whole success response or an error
\* status with a generic text and nothing of a success response; and no
\* handler sends an error status after it began to write a success body,
\* also when the write fails.
C21_Original ==
    /\ Answered =>
          IF Status(200) THEN IsSuccessResponse(X.handler, X.resp)
          ELSE IsErrorResponse(X.resp)
    /\ X.pc \in {"done", "failed"} => X.late = <<>>

-----------------------------------------------------------------------------
(* Claims about the shutdown *)

\* The exit status of the process: the one given to os.Exit, 1 after a
\* fatal error of main, none (-1) while it runs or when a signal ended it.
ExitStatus ==
    IF http.sig.exit # -1 THEN http.sig.exit
    ELSE IF phase = "exited" /\ ~http.sig.killed THEN 1
    ELSE -1

SignalAfterStartup == phase = "serving" /\ http.sig.sent

\* C24: once the listening process has received an interrupt or SIGTERM,
\* it ends with exit status 0 eventually, whatever exchange it is in and
\* also if the signal came before the goroutine ran.
C24_GracefulShutdown ==
    SignalAfterStartup ~> (phase = "exited" /\ ExitStatus = 0)

\* The process ended with status 0 in the middle of an exchange, on a
\* signal that came before the goroutine had run.
C24_Witness ==
    /\ phase = "exited"
    /\ ExitStatus = 0
    /\ http.sig.early
    /\ X.pc = "killed"
    /\ X.handler = "page"

-----------------------------------------------------------------------------
(* Claims about the independence of an answer from the answers before it *)

\* The exchange is answered and has the handler, the path (the type and
\* the uuid) and the query of the noted one.
SameAsFirst ==
    /\ http.hist.first # <<>>
    /\ Answered
    /\ X.handler = http.hist.first[1].handler
    /\ X.request.path = http.hist.first[1].request.path
    /\ X.request.rawQuery = http.hist.first[1].request.rawQuery

\* C22: a request of the config page or the config download with the type,
\* the uuid and the query of an earlier one gets the same connection URL
\* and the same response, config included, whatever was answered between
\* the two; and between two exchanges nothing of a request is left: the
\* exchange is empty, the handlers' values are gone and the stored
\* templates are as they were loaded.
C22_HistoryIndependence ==
    /\ SameAsFirst =>
          /\ X.resp = http.hist.first[1].resp
          /\ X.vlessURL = http.hist.first[1].vlessURL
    /\ X.pc = "none" =>
          /\ X = NoExchange
          /\ heap[Conn] = <<>>
    /\ StoreIntact

\* The third exchange downloads the config the first one downloaded, with
\* a query that sets parameters, after a second one with another query.
C22_Witness ==
    /\ SameAsFirst
    /\ http.hist.between
    /\ http.handled = 2
    /\ X.handler = "download"
    /\ Status(200)
    /\ X.resp.body[1] = "json"
    /\ X.request.rawQuery # <<>>
    /\ X.resp = http.hist.first[1].resp

====
